---- MODULE Spec2Model ----
(***************************************************************************)
(* A model of the transaction analytics engine                             *)
(* backend/app/analytics/advanced_analytics.py: the five analyzers of      *)
(* AdvancedFinancialAnalytics, the report aggregator, the caller's         *)
(* transaction table (a pandas DataFrame: a set of columns and a sequence  *)
(* of rows) and the engine's fit state (self.scaler, self.isolation_forest)*)
(*                                                                         *)
(* Conventions.  A timestamp is a number of seconds counted from a Monday  *)
(* 00:00:00; amounts are whole rupees.  A percentage (k / n) * 100 is kept *)
(* as the pair of counts k and n and compared exactly: 100 * k > t * n.    *)
(* Scores that the code keeps as floats (centralities, PageRank) are kept  *)
(* in fixed point, in units of 1 / Scale.                                  *)
(***************************************************************************)
EXTENDS Integers, Sequences, FiniteSets, TLC

(***************************************************************************)
(* Bounds of the model.                                                    *)
(***************************************************************************)
MaxRows == 2

\* The customers of one merchant, at most, in the tables whose graph is
\* followed.
MaxFan == 11

\* The customers, at most, in the tables whose profiles are analysed by one
\* engine in turn.
MaxCustomers == 7

\* The rows of a batch of transactions, the rows of a large batch, and the
\* most rows of a batch a caller moves to high-risk locations.
BatchRows == 20

ManyRows == 101

MaxRisky == 3

\* The most transactions of one customer in a table of active customers.
MaxActive == 11

\* The rows of the larger tables scored by predictive_risk_modeling, which
\* looks for a trend in more than 10 rows on more than 3 days.
TrendRows == 11

TrendDays == 4

VARIABLES
    table,      \* the caller's DataFrame: [cols, rows]
    orig,       \* the table as the caller built it (history)
    engine,     \* self.scaler and self.isolation_forest of the engine
    lastCall,   \* the operation that returned last and what it returned
    graph,      \* G of the network_analysis call whose loop is followed
    processed   \* the number of rows that loop has processed

vars == <<table, orig, engine, lastCall, graph, processed>>

(***************************************************************************)
(* Generic helpers.                                                        *)
(***************************************************************************)
Range(s) == {s[i] : i \in DOMAIN s}

Min2(a, b) == IF a <= b THEN a ELSE b

Max2(a, b) == IF a >= b THEN a ELSE b

Take(s, n) == SubSeq(s, 1, Min2(n, Len(s)))

RECURSIVE SumOver(_, _)
SumOver(f, S) ==
    IF S = {} THEN 0
    ELSE LET x == CHOOSE y \in S : TRUE IN f[x] + SumOver(f, S \ {x})

\* floor(x * w / total), without forming the product x * w.
MulDiv(x, w, total) == (x \div total) * w + ((x % total) * w) \div total

\* The indices 1..n in ascending order of key, equal keys in their original
\* order (a stable sort, which pandas' sort on at most 16 rows is).
SortAscending(key, n) ==
    LET before(i) == {j \in 1..n : key[j] < key[i] \/ (key[j] = key[i] /\ j < i)}
    IN  [p \in 1..n |-> CHOOSE i \in 1..n : Cardinality(before(i)) = p - 1]

\* list.sort(key=..., reverse=True): descending, equal keys in their
\* original order.
SortDescending(key, n) ==
    LET before(i) == {j \in 1..n : key[j] > key[i] \/ (key[j] = key[i] /\ j < i)}
    IN  [p \in 1..n |-> CHOOSE i \in 1..n : Cardinality(before(i)) = p - 1]

\* The subsequence of the indices of s (a sequence of indices) that satisfy
\* the set keep.
SelectIdx(s, keep) == SelectSeq(s, LAMBDA i : i \in keep)

(***************************************************************************)
(* Results.  AnalyticsResult keeps analysis_type, summary,                 *)
(* detailed_results, visualizations and recommendations; the result's own  *)
(* timestamp (datetime.now()) is left out.  A call ends with an outcome: a *)
(* result, or an exception.                                                *)
(***************************************************************************)
Raised == [raised |-> TRUE]

Returned(r) == [raised |-> FALSE, result |-> r]

\* A level that goes up to CRITICAL for several HIGH anomalies.
RiskFromAnomaliesUpToCritical(anomalies) ==
    IF Cardinality({i \in DOMAIN anomalies : anomalies[i].severity = "HIGH"}) > 1 THEN "CRITICAL"
    ELSE IF \E i \in DOMAIN anomalies : anomalies[i].severity = "HIGH" THEN "HIGH"
    ELSE IF Len(anomalies) > 0 THEN "MEDIUM"
    ELSE "LOW"

RiskFromAnomalies(anomalies) ==
    IF \E i \in DOMAIN anomalies : anomalies[i].severity = "HIGH" THEN "HIGH"
    ELSE IF Len(anomalies) > 0 THEN "MEDIUM"
    ELSE "LOW"

\* 100 * k / n > t, for the percentage of k rows among n.
PctAbove(k, n, t) == 100 * k > t * n

(***************************************************************************)
(* temporal_pattern_analysis                                               *)
(***************************************************************************)
HourOf(ts) == (ts \div 3600) % 24

DayOfWeek(ts) == (ts \div 86400) % 7

DateOf(ts) == ts \div 86400

unusual_hours == {0, 1, 2, 3, 4, 5, 22, 23}

TemporalColumns == {"hour", "day_of_week", "day_of_month", "month"}

\* A variant of TemporalTable that fills the timestamp column with the
\* current time whether the table has one or not.
TemporalTableAlwaysStamped(t, now) ==
    [cols |-> t.cols \cup {"timestamp"} \cup TemporalColumns,
     rows |-> [i \in DOMAIN t.rows |-> [t.rows[i] EXCEPT !.timestamp = now]]]

\* Lines 166-174: the derived columns are written into the caller's table;
\* a missing timestamp column is filled with the current time first.
TemporalTable(t, now) ==
    LET withTs ==
            IF "timestamp" \in t.cols THEN t
            ELSE [cols |-> t.cols \cup {"timestamp"},
                  rows |-> [i \in DOMAIN t.rows |->
                               [t.rows[i] EXCEPT !.timestamp = now]]]
    IN  [withTs EXCEPT !.cols = @ \cup TemporalColumns]

\* The rows less than 300 seconds after the row before them.
RapidTransactionsUnder300(t) ==
    LET n      == Len(t.rows)
        order  == SortAscending([i \in 1..n |-> t.rows[i].timestamp], n)
        gap(p) == IF p = 1 THEN -1
                  ELSE t.rows[order[p]].timestamp - t.rows[order[p - 1]].timestamp
        pos    == SelectSeq([p \in 1..n |-> p],
                            LAMBDA p : gap(p) < 300 /\ gap(p) > 0)
    IN  [q \in 1..Len(pos) |->
            [row       |-> t.rows[order[pos[q]]],
             time_diff |-> gap(pos[q]),
             columns   |-> t.cols \cup {"time_diff"}]]

\* Rows in time order with the gap to the previous row; the first row's gap
\* is NaN (-1 here), which fails both comparisons of lines 197-200.
RapidTransactions(t) ==
    LET n      == Len(t.rows)
        order  == SortAscending([i \in 1..n |-> t.rows[i].timestamp], n)
        gap(p) == IF p = 1 THEN -1
                  ELSE t.rows[order[p]].timestamp - t.rows[order[p - 1]].timestamp
        pos    == SelectSeq([p \in 1..n |-> p],
                            LAMBDA p : gap(p) <= 300 /\ gap(p) > 0)
    IN  [q \in 1..Len(pos) |->
            [row       |-> t.rows[order[pos[q]]],
             time_diff |-> gap(pos[q]),
             columns   |-> t.cols \cup {"time_diff"}]]

\* The anomalies with unusual hours counted as one from 20% on.
TemporalAnomaliesFromFifth(unusual, rapid, weekend, n) ==
    (IF PctAbove(unusual, n, 20)
        THEN <<[type |-> "unusual_hours", severity |-> "HIGH", count |-> unusual]>>
        ELSE <<>>)
    \o (IF PctAbove(rapid, n, 5)
        THEN <<[type |-> "velocity_abuse", severity |-> "MEDIUM", count |-> rapid]>>
        ELSE <<>>)
    \o (IF PctAbove(weekend, n, 40)
        THEN <<[type |-> "weekend_activity", severity |-> "MEDIUM", count |-> weekend]>>
        ELSE <<>>)

TemporalAnomalies(unusual, rapid, weekend, n) ==
    (IF PctAbove(unusual, n, 15)
        THEN <<[type |-> "unusual_hours", severity |-> "HIGH", count |-> unusual]>>
        ELSE <<>>)
    \o (IF PctAbove(rapid, n, 5)
        THEN <<[type |-> "velocity_abuse", severity |-> "MEDIUM", count |-> rapid]>>
        ELSE <<>>)
    \o (IF PctAbove(weekend, n, 40)
        THEN <<[type |-> "weekend_activity", severity |-> "MEDIUM", count |-> weekend]>>
        ELSE <<>>)

TemporalRecommendations(anomalies) ==
    IF Len(anomalies) = 0 THEN <<"Temporal patterns appear normal">>
    ELSE [i \in DOMAIN anomalies |->
            IF anomalies[i].severity = "HIGH"
            THEN "Immediate investigation required"
            ELSE "Monitor closely"]

\* The groupby statistics of lines 177-206 and 296-299, as (count, sum of
\* amount) per group; the mean follows from them.  keyOf[i] is the group of
\* row i.  monthly_stats is left out.
GroupStats(t, keyOf) ==
    LET n    == Len(t.rows)
        keys == {keyOf[i] : i \in 1..n}
    IN  [k \in keys |->
            LET members == {i \in 1..n : keyOf[i] = k}
            IN  [count |-> Cardinality(members),
                 sum   |-> SumOver([i \in 1..n |-> t.rows[i].amount], members)]]

\* What temporal_pattern_analysis does with the table t when the clock reads
\* now: the table it leaves behind and its outcome.
temporal_pattern_analysis(t, now) ==
    LET t2 == TemporalTable(t, now)
        n  == Len(t2.rows)
    IN  IF n = 0 \/ ~ ({"amount", "transaction_id"} \subseteq t2.cols)
        THEN [table |-> t2, outcome |-> Raised]
        ELSE
        LET unusual == Cardinality({i \in 1..n : HourOf(t2.rows[i].timestamp) \in unusual_hours})
            weekend == Cardinality({i \in 1..n : DayOfWeek(t2.rows[i].timestamp) \in {5, 6}})
            rapid_transactions == RapidTransactions(t2)
            anomalies == TemporalAnomalies(unusual, Len(rapid_transactions), weekend, n)
        IN  [table   |-> t2,
             outcome |-> Returned(
                [analysis_type |-> "temporal_pattern_analysis",
                 visualizations |-> <<"hourly_heatmap", "daily_patterns", "velocity_timeline">>,
                 summary |->
                    [total_transactions  |-> n,
                     unusual_hour_count  |-> unusual,
                     velocity_abuse_count |-> Len(rapid_transactions),
                     weekend_count       |-> weekend,
                     anomalies_detected  |-> Len(anomalies),
                     risk_level          |-> RiskFromAnomalies(anomalies)],
                 detailed_results |->
                    [hourly_stats |-> GroupStats(t2, [i \in 1..n |-> HourOf(t2.rows[i].timestamp)]),
                     daily_stats  |-> GroupStats(t2, [i \in 1..n |-> DayOfWeek(t2.rows[i].timestamp)]),
                     anomalies    |-> anomalies,
                     rapid_transactions |-> Take(rapid_transactions, 20)],
                 recommendations |-> TemporalRecommendations(anomalies)])]

(***************************************************************************)
(* geographic_clustering_analysis                                          *)
(***************************************************************************)
high_risk_locations == {"Border_Area", "Unknown", "Offshore", "Tax_Haven"}

\* The domestic locations with the border area among them.
DomesticWithBorderArea ==
    {"Mumbai", "Delhi", "Bangalore", "Chennai", "Pune", "Hyderabad", "Kolkata", "Ahmedabad",
     "Border_Area"}

domestic_locations ==
    {"Mumbai", "Delhi", "Bangalore", "Chennai", "Pune", "Hyderabad", "Kolkata", "Ahmedabad"}

\* The rows (as records carrying every column of the table) whose location
\* is in the set locs, in table order.
RowsAt(t, locs) ==
    LET n   == Len(t.rows)
        idx == SelectSeq([i \in 1..n |-> i], LAMBDA i : t.rows[i].location \in locs)
    IN  [q \in 1..Len(idx) |-> [row |-> t.rows[idx[q]], columns |-> t.cols]]

\* The anomalies with low diversity judged by the diversity score alone.
GeographicAnomaliesByScoreAlone(high_risk, top, unique_locations, cross_border, n) ==
    (IF PctAbove(high_risk, n, 10)
        THEN <<[type |-> "high_risk_locations", severity |-> "HIGH"]>>
        ELSE <<>>)
    \o (IF 2 * top > n
        THEN <<[type |-> "location_concentration", severity |-> "MEDIUM"]>>
        ELSE <<>>)
    \o (IF 100 * unique_locations < 5 * n
        THEN <<[type |-> "low_diversity", severity |-> "MEDIUM"]>>
        ELSE <<>>)
    \o (IF PctAbove(cross_border, n, 20)
        THEN <<[type |-> "cross_border_activity", severity |-> "HIGH"]>>
        ELSE <<>>)

GeographicAnomalies(high_risk, top, unique_locations, cross_border, n) ==
    (IF PctAbove(high_risk, n, 10)
        THEN <<[type |-> "high_risk_locations", severity |-> "HIGH"]>>
        ELSE <<>>)
    \o (IF 2 * top > n
        THEN <<[type |-> "location_concentration", severity |-> "MEDIUM"]>>
        ELSE <<>>)
    \o (IF 100 * unique_locations < 5 * n /\ unique_locations < 5
        THEN <<[type |-> "low_diversity", severity |-> "MEDIUM"]>>
        ELSE <<>>)
    \o (IF PctAbove(cross_border, n, 20)
        THEN <<[type |-> "cross_border_activity", severity |-> "HIGH"]>>
        ELSE <<>>)

GeographicRecommendations(anomalies) ==
    (IF Len(anomalies) = 0 THEN <<"Geographic patterns appear normal">>
     ELSE [i \in DOMAIN anomalies |->
             IF anomalies[i].severity = "HIGH"
             THEN "Priority investigation"
             ELSE "Enhanced monitoring"])
    \o <<"Consider implementing real-time location verification",
         "Cross-reference with known high-risk geographic zones">>

\* A table without location raises where the column is read.
NoLocationRaises == Raised

\* Lines 285-293: the result for a table without a location column, with no
\* detailed results (the empty dict is the function of no key).
NoLocationResult ==
    Returned([analysis_type    |-> "geographic_clustering",
              summary          |-> [error |-> "No location data available"],
              detailed_results |-> <<>>,
              visualizations   |-> <<>>,
              recommendations  |->
                  <<"Ensure location data is available for geographic analysis">>])

\* geographic_clustering_analysis reads the table and leaves it alone.  The
\* location statistics are kept as (count, sum of amount) per location;
\* top_locations (the five most frequent) is all of them for the at most five
\* locations of the model.
geographic_clustering_analysis(t) ==
    LET n == Len(t.rows) IN
    IF "location" \notin t.cols
    THEN NoLocationResult
    ELSE IF n = 0 \/ ~ ({"amount", "customer_id"} \subseteq t.cols)
    THEN Raised
    ELSE
    LET location_stats   == GroupStats(t, [i \in 1..n |-> t.rows[i].location])
        unique_locations == Cardinality(DOMAIN location_stats)
        top              == CHOOSE c \in {location_stats[l].count : l \in DOMAIN location_stats} :
                                \A l \in DOMAIN location_stats : location_stats[l].count <= c
        high_risk_transactions == RowsAt(t, high_risk_locations)
        cross_border     == Cardinality({i \in 1..n : t.rows[i].location \notin domestic_locations})
        anomalies        == GeographicAnomalies(Len(high_risk_transactions), top,
                                                unique_locations, cross_border, n)
    IN  Returned(
            [analysis_type |-> "geographic_clustering",
             visualizations |-> <<"location_heatmap", "geographic_distribution", "risk_zones_map">>,
             summary |->
                [total_locations    |-> unique_locations,
                 high_risk_count    |-> Len(high_risk_transactions),
                 cross_border_count |-> cross_border,
                 total_transactions |-> n,
                 anomalies_detected |-> Len(anomalies),
                 risk_level         |-> RiskFromAnomalies(anomalies)],
             detailed_results |->
                [location_stats         |-> location_stats,
                 top_locations          |-> [l \in DOMAIN location_stats |-> location_stats[l].count],
                 geographic_anomalies   |-> anomalies,
                 high_risk_transactions |-> Take(high_risk_transactions, 50)],
             recommendations |-> GeographicRecommendations(anomalies)])

(***************************************************************************)
(* network_analysis: the transaction graph.  A DiGraph is the sequence of  *)
(* its nodes in insertion order and the sequence of its edges in insertion *)
(* order, each edge with its attributes.                                   *)
(***************************************************************************)
EmptyGraph == [nodes |-> <<>>, edges |-> <<>>]

\* Line 69: the customer id, or a key hashed from the (absent) account number.
SourceOf(cols, row) ==
    IF "customer_id" \in cols THEN row.customer_id ELSE "CUST_"

\* Line 70: the merchant name, or a key hashed from the merchant category.
TargetOf(cols, row) ==
    IF "merchant_name" \in cols THEN row.merchant_name
    ELSE IF "merchant_category" \in cols THEN "MERCH_" \o row.merchant_category
    ELSE "MERCH_"

has_edge(g, s, t) ==
    \E k \in DOMAIN g.edges : g.edges[k].source = s /\ g.edges[k].target = t

\* G.add_edge(source, target, ...) for a pair that has no edge yet: the
\* end points become nodes, source first, when they are not nodes already.
add_edge(g, s, t, amount, ts) ==
    LET withS == IF s \in Range(g.nodes) THEN g.nodes ELSE Append(g.nodes, s)
        withT == IF t \in Range(withS) THEN withS ELSE Append(withS, t)
    IN  [nodes |-> withT,
         edges |-> Append(g.edges,
                          [source |-> s, target |-> t, weight |-> amount,
                           transaction_count |-> 1, timestamps |-> <<ts>>])]

\* Lines 75-78: the edge of the pair accumulates the transaction.
accumulate_edge(g, s, t, amount, ts) ==
    [g EXCEPT !.edges =
        [k \in DOMAIN g.edges |->
            IF g.edges[k].source = s /\ g.edges[k].target = t
            THEN [g.edges[k] EXCEPT !.weight = @ + amount,
                                    !.transaction_count = @ + 1,
                                    !.timestamps = Append(@, ts)]
            ELSE g.edges[k]]]

\* A variant of AddTransaction without the test of line 75: every
\* transaction makes an edge.
AddTransactionAsNewEdge(g, cols, row, now) ==
    [nodes |-> add_edge(g, SourceOf(cols, row), TargetOf(cols, row), 0, 0).nodes,
     edges |-> Append(g.edges,
                      [source |-> SourceOf(cols, row), target |-> TargetOf(cols, row),
                       weight |-> IF "amount" \in cols THEN row.amount ELSE 0,
                       transaction_count |-> 1,
                       timestamps |-> <<IF "timestamp" \in cols THEN row.timestamp ELSE now>>])]

\* The body of the loop of lines 68-83 for one row.
AddTransaction(g, cols, row, now) ==
    LET s      == SourceOf(cols, row)
        t      == TargetOf(cols, row)
        amount == IF "amount" \in cols THEN row.amount ELSE 0
        ts     == IF "timestamp" \in cols THEN row.timestamp ELSE now
    IN  IF has_edge(g, s, t)
        THEN accumulate_edge(g, s, t, amount, ts)
        ELSE add_edge(g, s, t, amount, ts)

RECURSIVE BuildGraphFrom(_, _, _, _, _)
BuildGraphFrom(g, cols, rows, i, now) ==
    IF i > Len(rows) THEN g
    ELSE BuildGraphFrom(AddTransaction(g, cols, rows[i], now), cols, rows, i + 1, now)

BuildGraph(t, now) == BuildGraphFrom(EmptyGraph, t.cols, t.rows, 1, now)

(***************************************************************************)
(* network_analysis: the metrics (networkx).  Scores are in units of       *)
(* 1 / Scale.                                                              *)
(***************************************************************************)
Scale == 10000000

number_of_nodes(g) == Len(g.nodes)

number_of_edges(g) == Len(g.edges)

\* G.degree(node) of a DiGraph: in-degree plus out-degree.
degree(g, v) ==
    Cardinality({k \in DOMAIN g.edges : g.edges[k].source = v})
    + Cardinality({k \in DOMAIN g.edges : g.edges[k].target = v})

\* nx.density of a DiGraph: m / (n (n - 1)), and 0 without edges or with
\* at most one node.
density(g) ==
    LET n == number_of_nodes(g)
        m == number_of_edges(g)
    IN  IF n <= 1 \/ m = 0 THEN 0 ELSE (m * Scale) \div (n * (n - 1))

\* The degree over the number of nodes.
DegreeOverNodes(g, v) ==
    LET n == number_of_nodes(g)
    IN  IF n <= 1 THEN Scale ELSE (degree(g, v) * Scale) \div n

\* nx.degree_centrality: degree / (n - 1), and 1 for every node of a graph
\* of at most one node.
degree_centrality(g, v) ==
    LET n == number_of_nodes(g)
    IN  IF n <= 1 THEN Scale ELSE (degree(g, v) * Scale) \div (n - 1)

\* Breadth-first distances from the nodes of the frontier (all at distance d):
\* the function from each node reached to its distance.
RECURSIVE BfsFrom(_, _, _, _)
BfsFrom(g, frontier, dist, d) ==
    IF frontier = {} THEN dist
    ELSE LET next == {v \in Range(g.nodes) \ DOMAIN dist :
                         \E u \in frontier : has_edge(g, u, v)}
         IN  BfsFrom(g, next, dist @@ [v \in next |-> d + 1], d + 1)

ShortestPathLengths(g, s) == BfsFrom(g, {s}, [v \in {s} |-> 0], 0)

\* The number of shortest paths from s to v, dist being the distances from s.
RECURSIVE ShortestPathCount(_, _, _, _)
ShortestPathCount(g, dist, s, v) ==
    IF v = s THEN 1
    ELSE LET preds == {u \in DOMAIN dist : dist[u] = dist[v] - 1 /\ has_edge(g, u, v)}
         IN  SumOver([u \in preds |-> ShortestPathCount(g, dist, s, u)], preds)

\* nx.betweenness_centrality(G) of a DiGraph, normalized: for each node v the
\* sum over the ordered pairs (s, t), s and t other than v, of the share of
\* the shortest s-t paths through v, over (n - 1)(n - 2) when n > 2.
betweenness_centrality(g) ==
    LET nodes == Range(g.nodes)
        n     == number_of_nodes(g)
        norm  == IF n > 2 THEN (n - 1) * (n - 2) ELSE 1
        dist  == [s \in nodes |-> ShortestPathLengths(g, s)]
        through(v) ==
            {<<s, t>> \in (nodes \ {v}) \X (nodes \ {v}) :
                /\ s # t
                /\ v \in DOMAIN dist[s]
                /\ t \in DOMAIN dist[s]
                /\ t \in DOMAIN dist[v]
                /\ dist[s][v] + dist[v][t] = dist[s][t]}
        share(v, st) ==
            (Scale * ShortestPathCount(g, dist[st[1]], st[1], v)
                   * ShortestPathCount(g, dist[v], v, st[2]))
            \div (ShortestPathCount(g, dist[st[1]], st[1], st[2]) * norm)
    IN  [v \in nodes |-> SumOver([st \in through(v) |-> share(v, st)], through(v))]

\* nx.pagerank(G): alpha = 0.85, max_iter = 100, tol = 1e-06, weighted by
\* the edge attribute 'weight'.
alpha_percent == 85

max_iter == 100

out_weight(g, u) ==
    LET out == {k \in DOMAIN g.edges : g.edges[k].source = u}
    IN  SumOver([k \in out |-> g.edges[k].weight], out)

\* One power iteration: x = alpha (x A + sum(x[dangling]) / N) + (1 - alpha) / N.
PageRankStep(g, x) ==
    LET nodes    == Range(g.nodes)
        N        == number_of_nodes(g)
        S        == [u \in nodes |-> out_weight(g, u)]
        dangling == {u \in nodes : S[u] = 0}
        danglesum == SumOver(x, dangling)
        into(v)  == {k \in DOMAIN g.edges : g.edges[k].target = v /\ S[g.edges[k].source] # 0}
        inflow(v) == SumOver([k \in into(v) |->
                                 MulDiv(x[g.edges[k].source], g.edges[k].weight,
                                        S[g.edges[k].source])], into(v))
    IN  [v \in nodes |->
            (alpha_percent * (inflow(v) + danglesum \div N)) \div 100
            + ((100 - alpha_percent) * (Scale \div N)) \div 100]

Abs(a) == IF a < 0 THEN -a ELSE a

\* The loop of the power iteration: it returns at the first iterate whose
\* distance from the previous one is below N * tol, and fails after max_iter
\* iterations (PowerIterationFailedConvergence).
RECURSIVE PageRankLoop(_, _, _)
PageRankLoop(g, xlast, iter) ==
    IF iter > max_iter THEN [converged |-> FALSE]
    ELSE LET nodes == Range(g.nodes)
             x     == PageRankStep(g, xlast)
             err   == SumOver([v \in nodes |-> Abs(x[v] - xlast[v])], nodes)
         IN  IF err < number_of_nodes(g) * (Scale \div 1000000)
             THEN [converged |-> TRUE, x |-> x]
             ELSE PageRankLoop(g, x, iter + 1)

pagerank(g) ==
    IF number_of_nodes(g) = 0 THEN [converged |-> TRUE, x |-> <<>>]
    ELSE PageRankLoop(g, [v \in Range(g.nodes) |-> Scale \div number_of_nodes(g)], 1)

\* nx.connected_components(G.to_undirected()): the components in the order
\* of their first node.
RECURSIVE ComponentOf(_, _)
ComponentOf(g, comp) ==
    LET more == {v \in Range(g.nodes) \ comp :
                    \E u \in comp : has_edge(g, u, v) \/ has_edge(g, v, u)}
    IN  IF more = {} THEN comp ELSE ComponentOf(g, comp \cup more)

connected_components(g) ==
    LET n       == number_of_nodes(g)
        comp(i) == ComponentOf(g, {g.nodes[i]})
        firsts  == SelectSeq([i \in 1..n |-> i],
                             LAMBDA i : \A j \in 1..(i - 1) : g.nodes[j] \notin comp(i))
    IN  [q \in 1..Len(firsts) |-> comp(firsts[q])]

(***************************************************************************)
(* network_analysis: suspicious nodes, risk level, result.                 *)
(***************************************************************************)
\* A variant of IsSuspicious whose thresholds are inclusive.
IsSuspiciousInclusive(centrality, betweenness, rank) ==
    \/ centrality >= Scale \div 10
    \/ betweenness >= Scale \div 10
    \/ rank >= Scale \div 20

\* Lines 102-104: the thresholds 0.1, 0.1 and 0.05, all strict.
IsSuspicious(centrality, betweenness, rank) ==
    \/ centrality > Scale \div 10
    \/ betweenness > Scale \div 10
    \/ rank > Scale \div 20

\* Lines 100-111: the flagged nodes in the order of G.nodes().
FlaggedNodes(g, centrality, betweenness, rank) ==
    LET n    == number_of_nodes(g)
        keep == SelectSeq([i \in 1..n |-> i],
                          LAMBDA i : IsSuspicious(centrality[g.nodes[i]],
                                                  betweenness[g.nodes[i]],
                                                  rank[g.nodes[i]]))
    IN  [q \in 1..Len(keep) |->
            [node_id                |-> g.nodes[keep[q]],
             degree_centrality      |-> centrality[g.nodes[keep[q]]],
             betweenness_centrality |-> betweenness[g.nodes[keep[q]]],
             pagerank               |-> rank[g.nodes[keep[q]]],
             total_connections      |-> degree(g, g.nodes[keep[q]])]]

\* Lines 113-117: sorted by the combined score, largest first.
CombinedScore(x) == x.degree_centrality + x.betweenness_centrality + x.pagerank

SortSuspicious(nodes) ==
    LET n     == Len(nodes)
        order == SortDescending([i \in 1..n |-> CombinedScore(nodes[i])], n)
    IN  [p \in 1..n |-> nodes[order[p]]]

\* A variant of NetworkRiskLevel whose thresholds are inclusive.
NetworkRiskLevelInclusive(count) ==
    IF count >= 10 THEN "HIGH" ELSE IF count >= 5 THEN "MEDIUM" ELSE "LOW"

\* Line 143.
NetworkRiskLevel(count) ==
    IF count > 10 THEN "HIGH" ELSE IF count > 5 THEN "MEDIUM" ELSE "LOW"

\* Line 146: the top 10.
TopSuspicious(nodes) == Take(nodes, 10)

\* Lines 805-815.  G.edges() lists the edges by source node, in the order
\* of the nodes.
serialize_graph(g) ==
    LET m     == number_of_edges(g)
        index == [k \in 1..m |-> CHOOSE i \in DOMAIN g.nodes : g.nodes[i] = g.edges[k].source]
        order == SortAscending(index, m)
    IN  [nodes |-> [i \in DOMAIN g.nodes |->
                       [id |-> g.nodes[i], degree |-> degree(g, g.nodes[i])]],
         edges |-> [p \in 1..m |->
                       [source |-> g.edges[order[p]].source,
                        target |-> g.edges[order[p]].target,
                        weight |-> g.edges[order[p]].weight]],
         metrics |-> [node_count |-> number_of_nodes(g),
                      edge_count |-> number_of_edges(g),
                      density    |-> density(g)]]

NetworkRecommendations(suspicious, large, dens) ==
    (IF suspicious > 0 THEN <<"Investigate top high-centrality entities">> ELSE <<>>)
    \o (IF large > 0 THEN <<"Analyze large transaction communities">> ELSE <<>>)
    \o (IF 10 * dens > 3 * Scale
        THEN <<"High network density indicates potential organized activity">>
        ELSE <<>>)

NetworkResult(g, suspicious_nodes, large_communities) ==
    [analysis_type |-> "network_analysis",
     visualizations |-> <<"network_graph", "centrality_distribution", "community_detection">>,
     summary |->
        [network_metrics |-> [total_nodes |-> number_of_nodes(g),
                              total_edges |-> number_of_edges(g),
                              density     |-> density(g)],
         suspicious_entities_count |-> Len(suspicious_nodes),
         communities_detected      |-> Len(large_communities),
         risk_level                |-> NetworkRiskLevel(Len(suspicious_nodes))],
     detailed_results |->
        [suspicious_nodes |-> TopSuspicious(suspicious_nodes),
         communities      |-> large_communities,
         network_graph    |-> serialize_graph(g)],
     recommendations |-> NetworkRecommendations(Len(suspicious_nodes),
                                                Len(large_communities), density(g))]

\* A filter that keeps the communities of more than 4 nodes.
LargeCommunitiesOverFour(communities) ==
    SelectSeq(communities, LAMBDA c : Cardinality(c) > 4)

\* Line 121: the communities of more than 3 nodes.
LargeCommunities(communities) ==
    SelectSeq(communities, LAMBDA c : Cardinality(c) > 3)

\* Lines 94-121: the scores of the nodes, the flagged nodes in the order of
\* their combined score, and the communities of more than 3 nodes.
SuspiciousAndCommunities(g, centrality, betweenness, rank) ==
    [centrality  |-> centrality,
     betweenness |-> betweenness,
     rank        |-> rank,
     suspicious_nodes  |-> IF rank.converged
                           THEN SortSuspicious(FlaggedNodes(g, centrality, betweenness, rank.x))
                           ELSE <<>>,
     large_communities |-> LargeCommunities(connected_components(g))]

\* Lines 86-121: the local variables of network_analysis once the graph g
\* is built.
NetworkLocals(g) ==
    SuspiciousAndCommunities(g, [v \in Range(g.nodes) |-> degree_centrality(g, v)],
                             betweenness_centrality(g), pagerank(g))

\* An outcome that raises for the graph of no node, too.
NetworkOutcomeNeedsNodes(g, locals) ==
    IF number_of_nodes(g) = 0 \/ ~ locals.rank.converged THEN Raised
    ELSE Returned(NetworkResult(g, locals.suspicious_nodes, locals.large_communities))

\* Lines 136-152: the outcome; a power iteration that does not converge
\* raises.  average_clustering is left out of network_metrics.
NetworkOutcome(g, locals) ==
    IF ~ locals.rank.converged THEN Raised
    ELSE Returned(NetworkResult(g, locals.suspicious_nodes, locals.large_communities))

\* Lines 85-152: what network_analysis makes of the graph it has built.
AnalyzeGraph(g) == NetworkOutcome(g, NetworkLocals(g))

\* network_analysis reads the table and leaves it alone.
network_analysis(t, now) == AnalyzeGraph(BuildGraph(t, now))

(***************************************************************************)
(* behavioral_profiling: the per-customer features.  Feature values are in *)
(* units of 1 / 100; NaN (the standard deviation of a single value) is NaN.*)
(***************************************************************************)
NaN == -1

\* The customer ids of the model in the order pandas sorts them (groupby
\* sorts its keys).
CustomerIds ==
    <<"C01", "C02", "C03", "C04", "C05", "C06", "C07", "C08",
      "C09", "C10", "C11", "C12", "C13", "C14", "C15", "C16">>

\* floor(sqrt(n)).
RECURSIVE IsqrtBetween(_, _, _)
IsqrtBetween(n, lo, hi) ==
    IF lo >= hi THEN lo
    ELSE LET mid == (lo + hi + 1) \div 2
         IN  IF mid * mid <= n THEN IsqrtBetween(n, mid, hi)
             ELSE IsqrtBetween(n, lo, mid - 1)

Isqrt(n) == IsqrtBetween(n, 0, Min2(n, 46340))

\* Series.std(): the sample standard deviation (ddof = 1) of the values
\* xs[i], i in idx, in units of 1 / unit of the values; NaN for one value.
SampleStd(xs, idx, unit) ==
    LET n   == Cardinality(idx)
        sum == SumOver(xs, idx)
        dev == [i \in idx |-> (n * xs[i] - sum) * (n * xs[i] - sum)]
    IN  IF n < 2 THEN NaN
        ELSE Isqrt(MulDiv(SumOver(dev, idx), unit * unit, n * n * (n - 1)))

\* The features of one customer with the velocity per day begun, the day
\* of the first transaction and the day of the last included.
BehavioralFeaturesPerDayBegun(t, customer_id) ==
    LET n        == Len(t.rows)
        mine     == {i \in 1..n : t.rows[i].customer_id = customer_id}
        count    == Cardinality(mine)
        amounts  == [i \in 1..n |-> t.rows[i].amount]
        total    == SumOver(amounts, mine)
        last     == CHOOSE i \in mine : \A j \in mine : t.rows[j].timestamp <= t.rows[i].timestamp
        first    == CHOOSE i \in mine : \A j \in mine : t.rows[j].timestamp >= t.rows[i].timestamp
        date_range == (t.rows[last].timestamp - t.rows[first].timestamp) \div 86400
        std      == SampleStd(amounts, mine, 1)
        round    == Cardinality({i \in mine : t.rows[i].amount % 1000 = 0})
    IN  [customer_id              |-> customer_id,
         transaction_count        |-> count,
         total_amount             |-> total,
         days                     |-> date_range + 1,
         velocity                 |-> (100 * count) \div (date_range + 1),
         amount_variance          |-> IF total > 0
                                      THEN (IF std = NaN THEN NaN ELSE (100 * std * count) \div total)
                                      ELSE 0,
         round_amount_count       |-> round,
         round_amount_percentage  |-> (100 * 100 * round) \div count,
         location_diversity       |-> Cardinality({t.rows[i].location : i \in mine}),
         payment_method_diversity |-> Cardinality({t.rows[i].payment_method : i \in mine}),
         hour_variance            |-> SampleStd([i \in 1..n |-> HourOf(t.rows[i].timestamp)],
                                                mine, 100)]

\* Lines 421-449: the features of one customer.
BehavioralFeatures(t, customer_id) ==
    LET n        == Len(t.rows)
        mine     == {i \in 1..n : t.rows[i].customer_id = customer_id}
        count    == Cardinality(mine)
        amounts  == [i \in 1..n |-> t.rows[i].amount]
        total    == SumOver(amounts, mine)
        last     == CHOOSE i \in mine : \A j \in mine : t.rows[j].timestamp <= t.rows[i].timestamp
        first    == CHOOSE i \in mine : \A j \in mine : t.rows[j].timestamp >= t.rows[i].timestamp
        date_range == (t.rows[last].timestamp - t.rows[first].timestamp) \div 86400
        std      == SampleStd(amounts, mine, 1)
        round    == Cardinality({i \in mine : t.rows[i].amount % 1000 = 0})
    IN  [customer_id              |-> customer_id,
         transaction_count        |-> count,
         total_amount             |-> total,
         days                     |-> Max2(date_range, 1),
         velocity                 |-> (100 * count) \div Max2(date_range, 1),
         amount_variance          |-> IF total > 0
                                      THEN (IF std = NaN THEN NaN ELSE (100 * std * count) \div total)
                                      ELSE 0,
         round_amount_count       |-> round,
         round_amount_percentage  |-> (100 * 100 * round) \div count,
         location_diversity       |-> Cardinality({t.rows[i].location : i \in mine}),
         payment_method_diversity |-> Cardinality({t.rows[i].payment_method : i \in mine}),
         hour_variance            |-> SampleStd([i \in 1..n |-> HourOf(t.rows[i].timestamp)],
                                                mine, 100)]

\* behavioral_df: one row of features per customer, in the order of the
\* sorted customer ids.
BehavioralFrame(t) ==
    LET present == {t.rows[i].customer_id : i \in DOMAIN t.rows}
        ids     == SelectSeq(CustomerIds, LAMBDA c : c \in present)
    IN  [q \in 1..Len(ids) |-> BehavioralFeatures(t, ids[q])]

\* Lines 455-459: the six analysed features of each profile, NaN filled
\* with 0.
features_for_analysis ==
    <<"amount_variance", "velocity", "round_amount_percentage",
      "location_diversity", "payment_method_diversity", "hour_variance">>

AnalysisData(frame) ==
    [q \in DOMAIN frame |->
        LET raw == <<frame[q].amount_variance, frame[q].velocity,
                     frame[q].round_amount_percentage, 100 * frame[q].location_diversity,
                     100 * frame[q].payment_method_diversity, frame[q].hour_variance>>
        IN  [f \in DOMAIN raw |-> IF raw[f] = NaN THEN 0 ELSE raw[f]]]

(***************************************************************************)
(* self.scaler and self.isolation_forest (scikit-learn).  Each is an       *)
(* object of the engine whose fit state outlives the call.                 *)
(***************************************************************************)
Unfitted == [fitted |-> FALSE]

\* StandardScaler.fit(X): the mean and the population standard deviation of
\* each feature; a zero deviation scales by 1.
StandardScaler_fit(X) ==
    LET n     == Len(X)
        rows  == 1..n
        mean  == [f \in 1..Len(features_for_analysis) |->
                     SumOver([q \in rows |-> X[q][f]], rows) \div n]
        var   == [f \in 1..Len(features_for_analysis) |->
                     SumOver([q \in rows |-> (X[q][f] - mean[f]) * (X[q][f] - mean[f])], rows)
                     \div n]
        scale == [f \in 1..Len(features_for_analysis) |->
                     IF Isqrt(var[f]) = 0 THEN 100 ELSE Isqrt(var[f])]
    IN  [fitted |-> TRUE, mean_ |-> mean, scale_ |-> scale]

\* StandardScaler.transform(X) with the fit state s.
StandardScaler_transform(s, X) ==
    [q \in DOMAIN X |->
        [f \in DOMAIN X[q] |-> (100 * (X[q][f] - s.mean_[f])) \div s.scale_[f]]]

\* A variant of fit_transform that fits only a scaler not fitted yet, and
\* transforms with the fit it has otherwise.
StandardScaler_fit_once_transform(s, X) ==
    IF s.fitted
    THEN [scaler |-> s, data |-> StandardScaler_transform(s, X)]
    ELSE [scaler |-> StandardScaler_fit(X),
          data   |-> StandardScaler_transform(StandardScaler_fit(X), X)]

\* self.scaler.fit_transform(X): fit on X, whatever the scaler was fitted on
\* before, then transform X with the new fit.
StandardScaler_fit_transform(s, X) ==
    LET fit == StandardScaler_fit(X)
    IN  [scaler |-> fit, data |-> StandardScaler_transform(fit, X)]

\* IsolationForest.score_samples: the trees are built from the training data
\* and a generator seeded with random_state = 42 at every fit, so the score
\* of a point is a function of the training data and the point alone.  It is
\* kept abstract as an isolation score, the negated squared distance of the
\* point from the centre of the training data: lower is more isolated.
contamination_percent == 10

IsolationScore(centre, x) ==
    0 - SumOver([f \in DOMAIN x |-> (x[f] - centre[f]) * (x[f] - centre[f])], DOMAIN x)

\* np.percentile(scores, q), by linear interpolation, times 100.
Percentile100(scores, q) ==
    LET n      == Len(scores)
        sorted == SortAscending(scores, n)
        pos    == (n - 1) * q
        lo     == pos \div 100 + 1
        hi     == Min2(lo + 1, n)
    IN  100 * scores[sorted[lo]]
        + (pos % 100) * (scores[sorted[hi]] - scores[sorted[lo]])

\* IsolationForest.fit(X): the trees (here the centre of the data) and
\* offset_, the contamination percentile of the training scores.
IsolationForest_fit(X) ==
    LET n      == Len(X)
        rows   == 1..n
        centre == [f \in 1..Len(features_for_analysis) |->
                      SumOver([q \in rows |-> X[q][f]], rows) \div n]
        scores == [q \in rows |-> IsolationScore(centre, X[q])]
    IN  [fitted |-> TRUE, centre |-> centre,
         offset100 |-> Percentile100(scores, contamination_percent)]

\* IsolationForest.predict(X) with the fit state m: -1 where the decision
\* function (score - offset_) is negative.
IsolationForest_predict(m, X) ==
    [q \in DOMAIN X |->
        IF 100 * IsolationScore(m.centre, X[q]) < m.offset100 THEN -1 ELSE 1]

\* self.isolation_forest.fit_predict(X).
IsolationForest_fit_predict(m, X) ==
    LET fit == IsolationForest_fit(X)
    IN  [model |-> fit, labels |-> IsolationForest_predict(fit, X)]

(***************************************************************************)
(* behavioral_profiling                                                    *)
(***************************************************************************)
BehavioralColumns ==
    {"customer_id", "amount", "payment_method", "merchant_category", "location", "timestamp"}

\* Lines 411-417: the groupby profile of each customer (count, sum, minimum
\* and maximum of amount, distinct categories and locations, first and last
\* timestamp; the mean, the deviation and the most common payment method
\* are left out).
CustomerProfiles(t) ==
    LET n       == Len(t.rows)
        present == {t.rows[i].customer_id : i \in 1..n}
    IN  [c \in present |->
            LET mine == {i \in 1..n : t.rows[i].customer_id = c}
            IN  [count      |-> Cardinality(mine),
                 sum        |-> SumOver([i \in 1..n |-> t.rows[i].amount], mine),
                 categories |-> Cardinality({t.rows[i].merchant_category : i \in mine}),
                 locations  |-> Cardinality({t.rows[i].location : i \in mine}),
                 timestamps |-> {t.rows[i].timestamp : i \in mine}]]

\* Lines 453-471: the outlier detection, run when there are more than 5
\* profiles.  It returns the engine's scaler and forest as the call leaves
\* them and the profiles flagged -1.
DetectOutliers(e, frame) ==
    IF Len(frame) > 5
    THEN LET normalized == StandardScaler_fit_transform(e.scaler, AnalysisData(frame))
             predicted  == IsolationForest_fit_predict(e.isolation_forest, normalized.data)
             flagged    == SelectSeq([q \in DOMAIN frame |-> q],
                                     LAMBDA q : predicted.labels[q] = -1)
         IN  [engine |-> [scaler |-> normalized.scaler, isolation_forest |-> predicted.model],
              suspicious_customers |->
                  [k \in 1..Len(flagged) |-> [profile |-> frame[flagged[k]], anomaly_score |-> -1]]]
    ELSE [engine |-> e, suspicious_customers |-> <<>>]

\* The customer ids of the profiles (indices of frame) in keep, at most 10.
CustomersOf(frame, keep) ==
    LET idx == SelectSeq([q \in DOMAIN frame |-> q], LAMBDA q : q \in keep)
    IN  Take([k \in 1..Len(idx) |-> frame[idx[k]].customer_id], 10)

\* The rule-based alerts with a high velocity from 10 a day on.
BehavioralAlertsFromTen(frame) ==
    LET all == DOMAIN frame
        high_velocity == {q \in all : frame[q].transaction_count >= 10 * frame[q].days}
        round_amount  == {q \in all : PctAbove(frame[q].round_amount_count,
                                               frame[q].transaction_count, 50)}
        low_diversity == {q \in all : /\ frame[q].location_diversity <= 1
                                      /\ frame[q].payment_method_diversity <= 1
                                      /\ frame[q].transaction_count > 5}
    IN  (IF high_velocity # {}
            THEN <<[type |-> "high_velocity", severity |-> "HIGH",
                    customers |-> CustomersOf(frame, high_velocity)]>>
            ELSE <<>>)
        \o (IF round_amount # {}
            THEN <<[type |-> "round_amounts", severity |-> "MEDIUM",
                    customers |-> CustomersOf(frame, round_amount)]>>
            ELSE <<>>)
        \o (IF low_diversity # {}
            THEN <<[type |-> "low_diversity", severity |-> "MEDIUM",
                    customers |-> CustomersOf(frame, low_diversity)]>>
            ELSE <<>>)

\* Lines 490-526: the rule-based alerts.
BehavioralAlerts(frame) ==
    LET all == DOMAIN frame
        high_velocity == {q \in all : frame[q].transaction_count > 10 * frame[q].days}
        round_amount  == {q \in all : PctAbove(frame[q].round_amount_count,
                                               frame[q].transaction_count, 50)}
        low_diversity == {q \in all : /\ frame[q].location_diversity <= 1
                                      /\ frame[q].payment_method_diversity <= 1
                                      /\ frame[q].transaction_count > 5}
    IN  (IF high_velocity # {}
            THEN <<[type |-> "high_velocity", severity |-> "HIGH",
                    customers |-> CustomersOf(frame, high_velocity)]>>
            ELSE <<>>)
        \o (IF round_amount # {}
            THEN <<[type |-> "round_amounts", severity |-> "MEDIUM",
                    customers |-> CustomersOf(frame, round_amount)]>>
            ELSE <<>>)
        \o (IF low_diversity # {}
            THEN <<[type |-> "low_diversity", severity |-> "MEDIUM",
                    customers |-> CustomersOf(frame, low_diversity)]>>
            ELSE <<>>)

BehavioralRecommendations(alerts) ==
    (IF Len(alerts) = 0 THEN <<"Behavioral patterns appear normal">>
     ELSE [i \in DOMAIN alerts |->
             IF alerts[i].severity = "HIGH"
             THEN "Immediate review required"
             ELSE "Enhanced monitoring"])
    \o <<"Implement continuous behavioral monitoring",
         "Consider machine learning-based behavior prediction">>

\* What behavioral_profiling does with the table t and the engine's fit
\* state: the fit state it leaves behind and its outcome.  It reads the
\* table and leaves it alone.  Without a customer_id column the statistics
\* of lines 479-488 raise; with one, the profile of lines 411-417 needs the
\* other columns.
behavioral_profiling(e, t) ==
    IF Len(t.rows) = 0 \/ ~ (BehavioralColumns \subseteq t.cols)
    THEN [engine |-> e, outcome |-> Raised]
    ELSE
    LET customer_profiles == CustomerProfiles(t)
        frame    == BehavioralFrame(t)
        detected == DetectOutliers(e, frame)
        alerts   == BehavioralAlerts(frame)
        n        == Len(t.rows)
    IN  [engine  |-> detected.engine,
         outcome |-> Returned(
            [analysis_type |-> "behavioral_profiling",
             visualizations |-> <<"behavior_clusters", "velocity_distribution", "diversity_matrix">>,
             summary |->
                [total_customers      |-> Cardinality(DOMAIN customer_profiles),
                 suspicious_customers |-> Len(detected.suspicious_customers),
                 behavioral_alerts    |-> Len(alerts),
                 risk_level           |-> RiskFromAnomalies(alerts)],
             detailed_results |->
                [customer_profiles       |-> customer_profiles,
                 suspicious_customers    |-> detected.suspicious_customers,
                 payment_method_stats    |-> GroupStats(t, [i \in 1..n |-> t.rows[i].payment_method]),
                 merchant_category_stats |-> GroupStats(t, [i \in 1..n |-> t.rows[i].merchant_category]),
                 behavioral_alerts       |-> alerts],
             recommendations |-> BehavioralRecommendations(alerts)])]

(***************************************************************************)
(* predictive_risk_modeling.  Risk scores of the lookup tables are in      *)
(* tenths (0.1 .. 0.9 as 1 .. 9); predicted_risk_score, 0 .. 100, is in    *)
(* tenths too (0 .. 1000).                                                 *)
(***************************************************************************)
PredictiveColumns == {"timestamp", "amount", "location", "payment_method", "merchant_category"}

PredictiveFeatureColumns ==
    {"hour", "day_of_week", "is_weekend", "is_unusual_hour", "log_amount",
     "is_round_amount", "is_high_amount", "is_high_risk_location",
     "payment_risk_score", "merchant_risk_score", "predicted_risk_score",
     "predicted_risk_level"}

predictive_unusual_hours == {0, 1, 2, 3, 22, 23}

predictive_high_risk_locations == {"Border_Area", "Unknown", "Offshore"}

payment_risk_scores(method) ==
    CASE method = "UPI" -> 1
      [] method = "Card" -> 2
      [] method = "Net_Banking" -> 3
      [] method = "IMPS" -> 4
      [] method = "NEFT" -> 6
      [] method = "RTGS" -> 8
      [] method = "Cash_Deposit" -> 9
      [] OTHER -> 5

\* The lookup table with 1.0 for the most risky category.
MerchantRiskScoresUpToOne(category) ==
    CASE category \in {"Grocery", "Food"} -> 1
      [] category \in {"Transport", "Retail"} -> 2
      [] category \in {"Healthcare", "Education"} -> 3
      [] category = "Entertainment" -> 4
      [] category = "Investment" -> 7
      [] category = "Real_Estate" -> 8
      [] category = "Gold_Jewelry" -> 10
      [] OTHER -> 5

merchant_risk_scores(category) ==
    CASE category \in {"Grocery", "Food"} -> 1
      [] category \in {"Transport", "Retail"} -> 2
      [] category \in {"Healthcare", "Education"} -> 3
      [] category = "Entertainment" -> 4
      [] category = "Investment" -> 7
      [] category = "Real_Estate" -> 8
      [] category = "Gold_Jewelry" -> 9
      [] OTHER -> 5

\* amount > Series.quantile(0.9) of the amounts (linear interpolation
\* between the order statistics around position 0.9 (n - 1)).
IsHighAmount(amounts, i) ==
    LET n      == Len(amounts)
        sorted == SortAscending(amounts, n)
        pos    == 9 * (n - 1)
        lo     == pos \div 10 + 1
        hi     == Min2(lo + 1, n)
    IN  10 * amounts[i] > 10 * amounts[sorted[lo]]
                          + (pos % 10) * (amounts[sorted[hi]] - amounts[sorted[lo]])

Flag(b) == IF b THEN 1 ELSE 0

\* Weights of one fifth for each flag and one tenth for each risk score.
WeightsOfFifths == <<20, 20, 20, 20, 10, 10>>

\* Lines 607-621: the weights 0.15, 0.10, 0.20, 0.25, 0.15, 0.15, times 100.
weights == <<15, 10, 20, 25, 15, 15>>

PredictedRiskScore(t, i) ==
    LET row == t.rows[i]
    IN  10 * weights[1] * Flag(HourOf(row.timestamp) \in predictive_unusual_hours)
        + 10 * weights[2] * Flag(row.amount % 1000 = 0)
        + 10 * weights[3] * Flag(IsHighAmount([j \in DOMAIN t.rows |-> t.rows[j].amount], i))
        + 10 * weights[4] * Flag(row.location \in predictive_high_risk_locations)
        + weights[5] * payment_risk_scores(row.payment_method)
        + weights[6] * merchant_risk_scores(row.merchant_category)

\* Bins closed on the left: [0, 25), [25, 50), [50, 75), [75, 100).
PredictedRiskLevelLeftClosed(score10) ==
    IF score10 < 0 \/ score10 >= 1000 THEN "NaN"
    ELSE IF score10 < 250 THEN "LOW"
    ELSE IF score10 < 500 THEN "MEDIUM"
    ELSE IF score10 < 750 THEN "HIGH"
    ELSE "CRITICAL"

\* pd.cut(score, bins=[0, 25, 50, 75, 100]): right-closed bins; a score
\* outside (0, 100] has no level.
PredictedRiskLevel(score10) ==
    IF score10 <= 0 \/ score10 > 1000 THEN "NaN"
    ELSE IF score10 <= 250 THEN "LOW"
    ELSE IF score10 <= 500 THEN "MEDIUM"
    ELSE IF score10 <= 750 THEN "HIGH"
    ELSE "CRITICAL"

\* The trend with a difference of 5 or more counted as a change.
RiskTrendFromFive(t, score10) ==
    LET n     == Len(t.rows)
        dates == {DateOf(t.rows[i].timestamp) : i \in 1..n}
    IN  IF n > 10 /\ Cardinality(dates) > 3
        THEN LET count  == [d \in dates |-> Cardinality({i \in 1..n : DateOf(t.rows[i].timestamp) = d})]
                 total  == [d \in dates |->
                               SumOver(score10, {i \in 1..n : DateOf(t.rows[i].timestamp) = d})]
                 head   == {d \in dates : Cardinality({e \in dates : e < d}) < 3}
                 tail   == {d \in dates : Cardinality({e \in dates : e > d}) < 3}
                 used   == head \cup tail
                 RECURSIVE Product(_)
                 Product(S) == IF S = {} THEN 1
                               ELSE LET d == CHOOSE e \in S : TRUE
                                    IN  count[d] * Product(S \ {d})
                 c      == Product(used)
                 scaled == [d \in used |-> total[d] * (c \div count[d])]
                 diff   == SumOver(scaled, tail) - SumOver(scaled, head)
             IN  IF diff >= 3 * 5 * 10 * c THEN "INCREASING"
                 ELSE IF diff <= 0 - 3 * 5 * 10 * c THEN "DECREASING"
                 ELSE "STABLE"
        ELSE "INSUFFICIENT_DATA"

\* Lines 634-649: the trend of the daily mean score.  With the days in
\* ascending order, the mean over the last three days minus the mean over
\* the first three, compared with 5 and -5; every daily mean is brought to
\* the common denominator 10 * c (c the product of the days' row counts).
RiskTrend(t, score10) ==
    LET n     == Len(t.rows)
        dates == {DateOf(t.rows[i].timestamp) : i \in 1..n}
    IN  IF n > 10 /\ Cardinality(dates) > 3
        THEN LET count  == [d \in dates |-> Cardinality({i \in 1..n : DateOf(t.rows[i].timestamp) = d})]
                 total  == [d \in dates |->
                               SumOver(score10, {i \in 1..n : DateOf(t.rows[i].timestamp) = d})]
                 head   == {d \in dates : Cardinality({e \in dates : e < d}) < 3}
                 tail   == {d \in dates : Cardinality({e \in dates : e > d}) < 3}
                 used   == head \cup tail
                 RECURSIVE Product(_)
                 Product(S) == IF S = {} THEN 1
                               ELSE LET d == CHOOSE e \in S : TRUE
                                    IN  count[d] * Product(S \ {d})
                 c      == Product(used)
                 scaled == [d \in used |-> total[d] * (c \div count[d])]
                 diff   == SumOver(scaled, tail) - SumOver(scaled, head)
             IN  IF diff > 3 * 5 * 10 * c THEN "INCREASING"
                 ELSE IF diff < 0 - 3 * 5 * 10 * c THEN "DECREASING"
                 ELSE "STABLE"
        ELSE "INSUFFICIENT_DATA"

PredictiveRecommendations(high_risk, trend) ==
    (IF high_risk > 0 THEN <<"Immediate attention: high/critical risk transactions identified">>
     ELSE <<>>)
    \o (IF trend = "INCREASING"
        THEN <<"Risk trend is increasing - consider implementing additional controls">>
        ELSE <<>>)
    \o <<"Deploy real-time risk scoring for all incoming transactions",
         "Implement automated alerts for transactions scoring above 75",
         "Regular model retraining recommended every 30 days">>

\* The summary level with a share of 10% counted as HIGH.
SummaryRiskLevelFromTenth(high_risk, n) ==
    IF 10 * high_risk >= n THEN "HIGH"
    ELSE IF high_risk > 0 THEN "MEDIUM"
    ELSE "LOW"

\* Line 698: the level of the summary, from the number of HIGH and CRITICAL
\* transactions among the n of the table (len / len > 0.1).
SummaryRiskLevel(high_risk, n) ==
    IF 10 * high_risk > n THEN "HIGH"
    ELSE IF high_risk > 0 THEN "MEDIUM"
    ELSE "LOW"

\* predictive_risk_modeling works on a copy of the table (line 575) and
\* leaves the table alone.
predictive_risk_modeling(t) ==
    LET n == Len(t.rows) IN
    IF n = 0 \/ ~ (PredictiveColumns \subseteq t.cols)
    THEN Raised
    ELSE
    LET score10 == [i \in 1..n |-> PredictedRiskScore(t, i)]
        level   == [i \in 1..n |-> PredictedRiskLevel(score10[i])]
        high    == SelectSeq([i \in 1..n |-> i], LAMBDA i : level[i] \in {"HIGH", "CRITICAL"})
        high_risk_transactions ==
            [q \in 1..Len(high) |->
                [row |-> t.rows[high[q]],
                 predicted_risk_score |-> score10[high[q]],
                 predicted_risk_level |-> level[high[q]],
                 columns |-> t.cols \cup PredictiveFeatureColumns]]
        trend   == RiskTrend(t, score10)
    IN  Returned(
            [analysis_type |-> "predictive_risk_modeling",
             visualizations |-> <<"risk_distribution", "trend_analysis", "feature_importance">>,
             summary |->
                [total_transactions_analyzed |-> n,
                 high_risk_count |-> Len(high),
                 risk_score_sum  |-> SumOver(score10, 1..n),
                 risk_trend      |-> trend,
                 risk_level      |-> SummaryRiskLevel(Len(high), n)],
             detailed_results |->
                [risk_distribution |->
                     [l \in {"LOW", "MEDIUM", "HIGH", "CRITICAL"} |->
                         Cardinality({i \in 1..n : level[i] = l})],
                 high_risk_transactions |-> Take(high_risk_transactions, 50),
                 future_predictions |->
                     IF trend \in {"INCREASING", "DECREASING"}
                     THEN <<[timeframe |-> "next_7_days", direction |-> trend]>>
                     ELSE <<>>,
                 feature_importance |-> weights],
             recommendations |-> PredictiveRecommendations(Len(high), trend)])

(***************************************************************************)
(* comprehensive_analysis_report                                           *)
(***************************************************************************)
\* The modules in the order lines 727-755 run them.
Modules == <<"network", "temporal", "geographic", "behavioral", "predictive">>

ModuleSet == Range(Modules)

\* One analyzer called on the table t with the engine state e when the
\* clock reads now: the table and the engine state it leaves and its
\* outcome.  A module in fault fails inside (a ComputationError), at its
\* first statement.
CallModule(m, e, t, now, fault) ==
    IF m \in fault THEN [engine |-> e, table |-> t, outcome |-> Raised]
    ELSE CASE m = "network" ->
                [engine |-> e, table |-> t, outcome |-> network_analysis(t, now)]
           [] m = "temporal" ->
                [engine |-> e] @@ temporal_pattern_analysis(t, now)
           [] m = "geographic" ->
                [engine |-> e, table |-> t, outcome |-> geographic_clustering_analysis(t)]
           [] m = "behavioral" ->
                [table |-> t] @@ behavioral_profiling(e, t)
           [] m = "predictive" ->
                [engine |-> e, table |-> t, outcome |-> predictive_risk_modeling(t)]

\* Lines 727-755, one try block: the module's result enters results under
\* its key; an exception is caught and leaves results as it was.
\* A variant of AfterTry in which a module's exception is not contained: it
\* takes the results gathered so far with it.
AfterTryLosingResults(m, st, r) ==
    [engine  |-> r.engine,
     table   |-> r.table,
     results |-> IF r.outcome.raised THEN <<>>
                 ELSE Append(st.results, [key |-> m, result |-> r.outcome.result]),
     ran     |-> Append(st.ran, m),
     failed  |-> IF r.outcome.raised THEN st.failed \cup {m} ELSE st.failed]

AfterTry(m, st, r) ==
    [engine  |-> r.engine,
     table   |-> r.table,
     results |-> IF r.outcome.raised THEN st.results
                 ELSE Append(st.results, [key |-> m, result |-> r.outcome.result]),
     ran     |-> Append(st.ran, m),
     failed  |-> IF r.outcome.raised THEN st.failed \cup {m} ELSE st.failed]

TryModule(m, st, now, fault) ==
    AfterTry(m, st, CallModule(m, st.engine, st.table, now, fault))

RECURSIVE RunModules(_, _, _, _)
RunModules(i, st, now, fault) ==
    IF i > Len(Modules) THEN st
    ELSE RunModules(i + 1, TryModule(Modules[i], st, now, fault), now, fault)

\* Line 764: the ordinal score of a risk level.
RiskScore(risk_level) ==
    CASE risk_level = "LOW" -> 25
      [] risk_level = "MEDIUM" -> 50
      [] risk_level = "HIGH" -> 75
      [] risk_level = "CRITICAL" -> 100
      [] OTHER -> 50

\* Lines 761-765: the scores of the results whose summary has a risk level.
OverallRiskScores(results) ==
    LET with == SelectSeq(results, LAMBDA x : "risk_level" \in DOMAIN x.result.summary)
    IN  [i \in 1..Len(with) |-> RiskScore(with[i].result.summary.risk_level)]

RECURSIVE Flatten(_)
Flatten(ss) == IF Len(ss) = 0 THEN <<>> ELSE Head(ss) \o Flatten(Tail(ss))

\* Lines 767-768.
TotalRecommendations(results) ==
    Flatten([i \in 1..Len(results) |-> results[i].result.recommendations])

\* The recommendations whose text has 'immediate' in it.
IsImmediate(rec) ==
    rec \in {"Immediate investigation required", "Immediate review required",
             "Immediate attention: high/critical risk transactions identified"}

\* The recommendations whose text has 'immediate' or 'priority' in it.
IsPriority(rec) ==
    rec \in {"Immediate investigation required", "Priority investigation",
             "Immediate review required",
             "Immediate attention: high/critical risk transactions identified"}

\* A variant of OverallRiskLevel whose thresholds are exclusive.
OverallRiskLevelExclusive(score60) ==
    IF score60 > 75 * 60 THEN "CRITICAL"
    ELSE IF score60 > 50 * 60 THEN "HIGH"
    ELSE IF score60 > 25 * 60 THEN "MEDIUM"
    ELSE "LOW"

\* Lines 771-783.  overall_risk_score is kept times 60, which every number
\* of scores from 1 to 5 divides.
OverallRiskLevel(score60) ==
    IF score60 >= 75 * 60 THEN "CRITICAL"
    ELSE IF score60 >= 50 * 60 THEN "HIGH"
    ELSE IF score60 >= 25 * 60 THEN "MEDIUM"
    ELSE "LOW"

ExecutiveSummary(results, t) ==
    LET overall_risk_scores   == OverallRiskScores(results)
        total_recommendations == TotalRecommendations(results)
        score60 == IF Len(overall_risk_scores) > 0
                   THEN (60 * SumOver(overall_risk_scores, DOMAIN overall_risk_scores))
                        \div Len(overall_risk_scores)
                   ELSE 0
    IN  [total_transactions_analyzed |-> Len(t.rows),
         analyses_completed    |-> Len(results),
         overall_risk_score60  |-> score60,
         overall_risk_level    |-> IF Len(overall_risk_scores) > 0
                                   THEN OverallRiskLevel(score60)
                                   ELSE "UNKNOWN",
         total_recommendations |-> Len(total_recommendations),
         priority_actions      |-> Take(SelectSeq(total_recommendations, IsPriority), 5)]

\* comprehensive_analysis_report on the table t: the engine state and the
\* table it leaves, the report it returns (the module results in insertion
\* order and the executive summary), and which modules ran and failed.
ComprehensiveReport(st) ==
    [engine |-> st.engine,
     table  |-> st.table,
     ran    |-> st.ran,
     failed |-> st.failed,
     report |-> [results |-> st.results,
                 executive_summary |-> ExecutiveSummary(st.results, st.table)]]

comprehensive_analysis_report(e, t, now, fault) ==
    ComprehensiveReport(
        RunModules(1, [engine |-> e, table |-> t, results |-> <<>>,
                       ran |-> <<>>, failed |-> {}], now, fault))

(***************************************************************************)
(* The engine and one caller's table: the operations in any order.         *)
(***************************************************************************)
BaseColumns ==
    {"transaction_id", "customer_id", "merchant_name", "merchant_category",
     "payment_method", "amount", "location", "timestamp"}

\* The tables drawn: every column, or no location, or no timestamp.
ColumnChoices == {BaseColumns, BaseColumns \ {"location"}, BaseColumns \ {"timestamp"}}

\* The rows drawn: Monday 02:00 at a border, a round amount; Monday 14:00 in
\* Mumbai; Monday 14:03:20 in Delhi, 200 s after the second.
RowChoices ==
    {[customer_id |-> "C01", merchant_name |-> "M1", merchant_category |-> "Gold_Jewelry",
      payment_method |-> "RTGS", amount |-> 1000, location |-> "Border_Area",
      timestamp |-> 7200],
     [customer_id |-> "C02", merchant_name |-> "M2", merchant_category |-> "Grocery",
      payment_method |-> "UPI", amount |-> 1500, location |-> "Mumbai",
      timestamp |-> 50400],
     [customer_id |-> "C03", merchant_name |-> "M1", merchant_category |-> "Retail",
      payment_method |-> "Card", amount |-> 700, location |-> "Delhi",
      timestamp |-> 50600]}

\* The clock, read where the table has no timestamp: Monday 14:00 or
\* Monday 22:00.
NowChoices == {50400, 79200}

TransactionIds ==
    <<"T01", "T02", "T03", "T04", "T05", "T06", "T07", "T08", "T09", "T10",
      "T11", "T12", "T13", "T14", "T15", "T16", "T17", "T18", "T19", "T20">>

\* The id of the i-th transaction of a table, for i up to 999.
TransactionId(i) ==
    IF i <= Len(TransactionIds) THEN TransactionIds[i]
    ELSE LET digits == <<"0", "1", "2", "3", "4", "5", "6", "7", "8", "9">>
         IN  "T" \o digits[((i \div 100) % 10) + 1] \o digits[((i \div 10) % 10) + 1]
                 \o digits[(i % 10) + 1]

\* A table of the given columns and row contents: the transaction ids count
\* up; a column the table lacks has no values.
MakeTable(cols, content) ==
    [cols |-> cols,
     rows |-> [i \in DOMAIN content |->
                  [transaction_id    |-> TransactionId(i),
                   customer_id       |-> content[i].customer_id,
                   merchant_name     |-> content[i].merchant_name,
                   merchant_category |-> content[i].merchant_category,
                   payment_method    |-> content[i].payment_method,
                   amount            |-> content[i].amount,
                   location          |-> IF "location" \in cols THEN content[i].location ELSE "NA",
                   timestamp         |-> IF "timestamp" \in cols THEN content[i].timestamp ELSE 0]]]

\* The first payment of the i-th customer.
FirstPayment(i) ==
    [customer_id |-> CustomerIds[i], merchant_name |-> "M1",
     merchant_category |-> "Retail", payment_method |-> "UPI",
     amount |-> 700 + 300 * (i % 4) + 150 * (i % 3),
     location |-> IF i % 2 = 0 THEN "Mumbai" ELSE "Delhi",
     timestamp |-> 36000 + 3600 * i]

\* A second payment of the i-th customer: of kind 1 two days later, three
\* times the amount; of kind 2 the same day, elsewhere, by another method.
SecondPayment(i, kind) ==
    IF kind = 1
    THEN [FirstPayment(i) EXCEPT !.amount = 3 * @, !.timestamp = @ + 2 * 86400 + 18000]
    ELSE [FirstPayment(i) EXCEPT !.amount = 1000, !.location = "Border_Area",
                                 !.payment_method = "RTGS", !.timestamp = @ + 36000]

\* n customers with one payment each; the first and the second customer
\* with a second payment of kind x and y, if not 0.
ProfilesTable(n, x, y) ==
    MakeTable(BaseColumns,
              [i \in 1..n |-> FirstPayment(i)]
              \o (IF x = 0 THEN <<>> ELSE <<SecondPayment(1, x)>>)
              \o (IF y = 0 THEN <<>> ELSE <<SecondPayment(2, y)>>))

\* A table of six customers, two of them with two payments: enough profiles
\* for the outlier detection of behavioral_profiling.
SixCustomers == ProfilesTable(6, 1, 2)

FreshEngine == [scaler |-> Unfitted, isolation_forest |-> Unfitted]

NoCall == [op |-> "none"]

Init ==
    /\ \/ \E cols \in ColumnChoices, n \in 1..MaxRows :
             \E content \in [1..n -> RowChoices] :
                 table = MakeTable(cols, content)
       \/ table = SixCustomers
    /\ orig = table
    /\ engine = FreshEngine
    /\ lastCall = NoCall
    /\ graph = EmptyGraph
    /\ processed = 0

\* The caller calls the analyzer m on the table and holds what it returned.
\* The analyzer m returns r to the caller: calls counts the calls of m in a
\* row, up to 2.
Return(m, calls, r) ==
    /\ table' = r.table
    /\ engine' = r.engine
    /\ lastCall' = [op |-> m, calls |-> calls, before |-> engine, outcome |-> r.outcome]
    /\ UNCHANGED <<orig, graph, processed>>

Call(m, calls) ==
    \E now \in NowChoices : Return(m, calls, CallModule(m, engine, table, now, {}))

Analyze(m) == lastCall = NoCall /\ Call(m, 1)

\* The caller calls the analyzer that returned last once more.
AnalyzeAgain == \E m \in ModuleSet : lastCall.op = m /\ Call(m, 2)

ReturnReport(fault, r) ==
    /\ table' = r.table
    /\ engine' = r.engine
    /\ lastCall' = [op |-> "report", fault |-> fault, ran |-> r.ran, failed |-> r.failed,
                    outcome |-> Returned(r.report)]
    /\ UNCHANGED <<orig, graph, processed>>

\* The caller calls comprehensive_analysis_report on the table; the modules
\* in fault fail inside.
Report ==
    /\ lastCall = NoCall
    /\ \E now \in NowChoices, fault \in SUBSET ModuleSet :
          ReturnReport(fault, comprehensive_analysis_report(engine, table, now, fault))

\* The caller lets go of the result it holds.
Discard ==
    /\ lastCall # NoCall
    /\ lastCall' = NoCall
    /\ UNCHANGED <<table, orig, engine, graph, processed>>

Next ==
    \/ Analyze("network")
    \/ Analyze("temporal")
    \/ Analyze("geographic")
    \/ Analyze("behavioral")
    \/ Analyze("predictive")
    \/ AnalyzeAgain
    \/ Report
    \/ Discard

Spec == Init /\ [][Next]_vars

(***************************************************************************)
(* network_analysis followed through its loop, on tables of payments of    *)
(* many customers to two merchants.                                        *)
(***************************************************************************)
\* The i-th row of such a table: customer c pays to.
Payment(c, to, i) ==
    [customer_id |-> c, merchant_name |-> to, merchant_category |-> "Retail",
     payment_method |-> "UPI", amount |-> 500 + 100 * i, location |-> "Mumbai",
     timestamp |-> 50400 + 600 * i]

\* a customers pay M1, b more pay M2, the first customer pays M1 r times
\* more, and p more customers pay the first customer.
PaymentsTable(a, b, r, p) ==
    LET payers == [i \in 1..(a + b + r + p) |->
                      IF i <= a + b THEN CustomerIds[i]
                      ELSE IF i <= a + b + r THEN CustomerIds[1]
                      ELSE CustomerIds[i - r]]
        payees == [i \in 1..(a + b + r + p) |->
                      IF i <= a THEN "M1"
                      ELSE IF i <= a + b THEN "M2"
                      ELSE IF i <= a + b + r THEN "M1"
                      ELSE CustomerIds[1]]
    IN  MakeTable(BaseColumns,
                  [i \in 1..(a + b + r + p) |-> Payment(payers[i], payees[i], i)])

NetInit ==
    /\ \E a \in 0..MaxFan, b \in 0..2, r \in 0..1, p \in 0..1 :
          table = PaymentsTable(a, b, r, p)
    /\ orig = table
    /\ engine = FreshEngine
    /\ lastCall = NoCall
    /\ graph = EmptyGraph
    /\ processed = 0

\* One pass of the loop of lines 68-83.
ProcessTransaction ==
    /\ lastCall = NoCall
    /\ processed < Len(table.rows)
    /\ \E now \in NowChoices :
          graph' = AddTransaction(graph, table.cols, table.rows[processed + 1], now)
    /\ processed' = processed + 1
    /\ UNCHANGED <<table, orig, engine, lastCall>>

ReturnNetwork(locals) ==
    /\ lastCall' = [op |-> "network", calls |-> 1,
                    outcome |-> NetworkOutcome(graph, locals), locals |-> locals]
    /\ UNCHANGED <<table, orig, engine, graph, processed>>

\* The loop is over: lines 85-152.
FinishNetworkAnalysis ==
    /\ lastCall = NoCall
    /\ processed = Len(table.rows)
    /\ ReturnNetwork(NetworkLocals(graph))

NetNext ==
    \/ ProcessTransaction
    \/ FinishNetworkAnalysis

SpecNet == NetInit /\ [][NetNext]_vars

(***************************************************************************)
(* One engine called with the table of one request after another, as the   *)
(* web application does: tables of five and more customers.                *)
(***************************************************************************)
ProfilesTables == {ProfilesTable(n, x, y) : n \in 5..MaxCustomers, x \in 0..2, y \in 0..2}

BehInit ==
    /\ table \in ProfilesTables
    /\ orig = table
    /\ engine = FreshEngine
    /\ lastCall = NoCall
    /\ graph = EmptyGraph
    /\ processed = 0

\* The next request: the caller reads another table; the engine is the one
\* of the requests before.
NewRequest ==
    /\ lastCall = NoCall
    /\ table' \in ProfilesTables
    /\ orig' = table'
    /\ UNCHANGED <<engine, lastCall, graph, processed>>

BehNext ==
    \/ NewRequest
    \/ Analyze("behavioral")
    \/ Discard

SpecBeh == BehInit /\ [][BehNext]_vars

(***************************************************************************)
(* temporal_pattern_analysis and geographic_clustering_analysis on batches *)
(* of transactions, and on the batches a caller makes of them by moving a  *)
(* transaction to a high-risk location.                                    *)
(***************************************************************************)
\* The i-th row of the batch p.  Of its p.n rows the first p.top are at
\* Mumbai, the next p.risky at Border_Area, the next p.foreign at Dubai, the
\* rest at p.others domestic locations in turn (five locations at most, so
\* that the five top_locations are all of them).  The first p.weekend rows are of a Saturday, the rest
\* of a Monday; the last p.unusual rows are of the hour from 02:00, but the
\* last p.late of the hour from 22:00, the rest of the hour from 12:00.
\* The first p.rapid + 1 rows are p.gap seconds apart, the rest 301 seconds.
BatchPayment(i, p) ==
    [customer_id |-> CustomerIds[(i % 5) + 1], merchant_name |-> "M1",
     merchant_category |-> "Retail", payment_method |-> "UPI",
     amount |-> 1000 + 10 * i,
     location |-> IF i <= p.top THEN "Mumbai"
                  ELSE IF i <= p.top + p.risky THEN "Border_Area"
                  ELSE IF i <= p.top + p.risky + p.foreign THEN "Dubai"
                  ELSE <<"Delhi", "Pune", "Chennai">>[
                           ((i - p.top - p.risky - p.foreign - 1) % p.others) + 1],
     timestamp |-> (IF i <= p.weekend THEN 5 ELSE 0) * 86400
                   + (IF i > p.n - p.late THEN 22
                      ELSE IF i > p.n - p.unusual THEN 2 ELSE 12) * 3600
                   + (IF i <= p.rapid + 1 THEN p.gap * i
                      ELSE p.gap * (p.rapid + 1) + 301 * (i - p.rapid - 1))]

Batch(p) == MakeTable(BaseColumns, [i \in 1..p.n |-> BatchPayment(i, p)])

\* A batch of n rows on a Monday afternoon, a little less than half of them
\* at Mumbai, the rest at Delhi and Pune.
PlainBatch(n) ==
    [n |-> n, top |-> Max2((n \div 2) - 1, 0), risky |-> 0, foreign |-> 0, others |-> 2,
     unusual |-> 0, late |-> 0, weekend |-> 0, rapid |-> 0, gap |-> 300]

\* Batches of no row and of one row; batches of BatchRows and BatchRows + 1
\* rows with about half of them or all of them at one location; batches of
\* ManyRows rows at 4 or 5 locations.
GeoBatches ==
    {Batch(PlainBatch(0)), Batch(PlainBatch(1)),
     Batch([top |-> 0, foreign |-> 1] @@ PlainBatch(1))}
    \cup {Batch([top |-> top, foreign |-> foreign, others |-> others] @@ PlainBatch(n)) :
              n \in {BatchRows, BatchRows + 1},
              top \in ((BatchRows \div 2) - 1)..((BatchRows \div 2) + 1),
              foreign \in 0..2, others \in 1..2}
    \cup {Batch([top |-> n] @@ PlainBatch(n)) : n \in {BatchRows, BatchRows + 1}}
    \cup {Batch([top |-> 2 * (ManyRows \div 5), risky |-> 1, others |-> others]
                @@ PlainBatch(ManyRows)) : others \in 2..3}

\* Batches of BatchRows and BatchRows + 1 rows with about 15% of them at
\* unusual hours, about 40% of them on a weekend and a few in rapid
\* succession.
TimeBatches ==
    {Batch([unusual |-> unusual, late |-> Min2(late, unusual), weekend |-> weekend,
                 rapid |-> rapid, gap |-> gap] @@ PlainBatch(n)) :
              n \in {BatchRows, BatchRows + 1},
              unusual \in {0, (15 * BatchRows) \div 100, ((15 * BatchRows) \div 100) + 1},
              late \in 0..1,
              weekend \in {0, (40 * BatchRows) \div 100, ((40 * BatchRows) \div 100) + 1},
              rapid \in 0..2, gap \in {0, 300}}

BatchInit ==
    /\ table \in GeoBatches \cup TimeBatches
    /\ orig = table
    /\ engine = FreshEngine
    /\ lastCall = NoCall
    /\ graph = EmptyGraph
    /\ processed = 0

BatchNext ==
    \/ Analyze("temporal")
    \/ Analyze("geographic")
    \/ Discard

SpecBatch == BatchInit /\ [][BatchNext]_vars

GeoInit ==
    /\ table \in GeoBatches
    /\ orig = table
    /\ engine = FreshEngine
    /\ lastCall = NoCall
    /\ graph = EmptyGraph
    /\ processed = 0

\* The caller's next table is t, of at most MaxRisky rows at high-risk
\* locations, and geographic_clustering_analysis returns for it.
AnalyzeRelocated(t) ==
    /\ Cardinality({i \in DOMAIN t.rows : t.rows[i].location \in high_risk_locations})
          <= MaxRisky
    /\ table' = t
    /\ orig' = t
    /\ lastCall' = [op |-> "geographic", calls |-> 1, before |-> engine,
                    outcome |-> geographic_clustering_analysis(t)]
    /\ UNCHANGED <<engine, graph, processed>>

\* The caller holds the result for its table, moves the first transaction
\* of some location that is not a high-risk one to the high-risk location
\* Border_Area, all other fields as they are, and has the new table
\* analysed.
Relocate ==
    /\ lastCall.op = "geographic"
    /\ \E i \in DOMAIN table.rows :
          /\ table.rows[i].location \notin high_risk_locations
          /\ \A j \in 1..(i - 1) : table.rows[j].location # table.rows[i].location
          /\ AnalyzeRelocated([table EXCEPT !.rows[i].location = "Border_Area"])

GeoNext ==
    \/ Analyze("geographic")
    \/ Relocate
    \/ Discard

SpecGeo == GeoInit /\ [][GeoNext]_vars

(***************************************************************************)
(* behavioral_profiling on tables with one active customer.                *)
(***************************************************************************)
\* The customer C01 with m payments a minute apart, the last of them hours
\* hours later; the first round of them of a round amount; the last at
\* another location (apart = 1) or by another payment method (apart = 2);
\* and k more customers with one payment each.
ActiveTable(m, round, apart, hours, k) ==
    MakeTable(BaseColumns,
              [j \in 1..m |->
                  [customer_id |-> "C01", merchant_name |-> "M1",
                   merchant_category |-> "Retail",
                   payment_method |-> IF apart = 2 /\ j = m THEN "Card" ELSE "UPI",
                   amount |-> IF j <= round THEN 1000 ELSE 1001,
                   location |-> IF apart = 1 /\ j = m THEN "Delhi" ELSE "Mumbai",
                   timestamp |-> 36000 + 60 * j + (IF j = m THEN hours * 3600 ELSE 0)]]
              \o [i \in 1..k |-> FirstPayment(i + 1)])

RulesInit ==
    /\ \E m \in {1, 5, 6, MaxActive - 1, MaxActive}, apart \in 0..2,
          hours \in {0, 23, 47, 48}, k \in {0, MaxCustomers - 2} :
          \E round \in {0, m \div 2, (m \div 2) + 1} :
              table = ActiveTable(m, round, apart, hours, k)
    /\ orig = table
    /\ engine = FreshEngine
    /\ lastCall = NoCall
    /\ graph = EmptyGraph
    /\ processed = 0

RulesNext ==
    \/ Analyze("behavioral")
    \/ Discard

SpecRules == RulesInit /\ [][RulesNext]_vars

(***************************************************************************)
(* predictive_risk_modeling on tables of a few transactions that differ in *)
(* their risk factors.                                                     *)
(***************************************************************************)
\* Transactions of a risky or a harmless merchant category and payment
\* method, of a round or another amount, at a place and an hour that the
\* modules rate differently.
ScoredRows ==
    {[customer_id |-> "C01", merchant_name |-> "M1", merchant_category |-> kind[1],
      payment_method |-> kind[2], amount |-> amount, location |-> where[1],
      timestamp |-> where[2] * 3600] :
        kind \in {<<"Gold_Jewelry", "RTGS">>, <<"Grocery", "UPI">>},
        amount \in {100000, 1500},
        where \in {<<"Border_Area", 2>>, <<"Tax_Haven", 4>>, <<"Mumbai", 12>>}}

PredInit ==
    /\ \E n \in 1..MaxRows : \E content \in [1..n -> ScoredRows] :
          table = MakeTable(BaseColumns, content)
    /\ orig = table
    /\ engine = FreshEngine
    /\ lastCall = NoCall
    /\ graph = EmptyGraph
    /\ processed = 0

PredNext ==
    \/ Analyze("predictive")
    \/ Discard

SpecPred == PredInit /\ [][PredNext]_vars

(***************************************************************************)
(* predictive_risk_modeling on tables of one day and of several days.      *)
(***************************************************************************)
\* A payment of a merchant category and payment method (kind), an amount,
\* at a location, in the given hour of the given day.
ScoredPayment(kind, amount, location, hour, day) ==
    [customer_id |-> "C01", merchant_name |-> "M1", merchant_category |-> kind[1],
     payment_method |-> kind[2], amount |-> amount, location |-> location,
     timestamp |-> day * 86400 + hour * 3600]

\* Tables of one day: a first payment, of a kind the lookup tables do not
\* know, of the least or of the most risky kind, of a round or another
\* amount, at a high-risk location or not, at an unusual hour or not,
\* followed by payments of 1500 for groceries at noon in Mumbai.
DayTables ==
    {MakeTable(BaseColumns,
               <<ScoredPayment(kind, amount, location, hour, 0)>>
               \o [i \in 1..(n - 1) |-> ScoredPayment(<<"Grocery", "UPI">>, 1500, "Mumbai", 12, 0)]) :
        kind \in {<<"Crypto", "Cheque">>, <<"Grocery", "UPI">>, <<"Gold_Jewelry", "Cash_Deposit">>},
        amount \in {1500, 1501, 2000},
        location \in {"Mumbai", "Border_Area"},
        hour \in {2, 12},
        n \in {1, 2, TrendRows - 2, TrendRows - 1, TrendRows}}

\* Tables of several days, the payments dealt to the days in turn, all of
\* 1500 for groceries in Mumbai: the payments of the first day as first
\* says, those of the last day as last says, the others at noon by UPI.
TrendTables ==
    {MakeTable(BaseColumns,
               [i \in 1..n |->
                   LET day == (i - 1) % days
                       how == IF day = 0 THEN first
                              ELSE IF day = days - 1 THEN last
                              ELSE <<"UPI", 12>>
                   IN  ScoredPayment(<<"Grocery", how[1]>>, 1500, "Mumbai", how[2], day)]) :
        n \in {TrendRows - 1, TrendRows},
        days \in {TrendDays - 1, TrendDays, TrendDays + 2},
        first \in {<<"UPI", 12>>, <<"UPI", 2>>, <<"Card", 2>>},
        last \in {<<"UPI", 12>>, <<"UPI", 2>>, <<"Card", 2>>}}

TrendInit ==
    /\ table \in DayTables \cup TrendTables
    /\ orig = table
    /\ engine = FreshEngine
    /\ lastCall = NoCall
    /\ graph = EmptyGraph
    /\ processed = 0

TrendNext ==
    \/ Analyze("predictive")
    \/ Discard

SpecTrend == TrendInit /\ [][TrendNext]_vars

(***************************************************************************)
(* The claims about the report and the analyzers on one table.             *)
(***************************************************************************)
IsReport == lastCall.op = "report"

IsAnalyzer == lastCall.op \in ModuleSet

ReportResults == lastCall.outcome.result.results

ReportSummary == lastCall.outcome.result.executive_summary

ReportKeys == {ReportResults[i].key : i \in DOMAIN ReportResults}

\* Two outcomes agree: both raise, or both return the same summary and the
\* same detailed_results.
SameResult(a, b) ==
    /\ a.raised = b.raised
    /\ ~ a.raised =>
          /\ a.result.summary = b.result.summary
          /\ a.result.detailed_results = b.result.detailed_results

\* C1: whichever modules fail inside, comprehensive_analysis_report returns,
\* has run all five modules in order, and its output holds exactly one entry
\* for each module that did not fail, and the executive summary.
C1_ReportContainsFailures ==
    IsReport =>
        /\ ~ lastCall.outcome.raised
        /\ lastCall.ran = Modules
        /\ lastCall.fault \subseteq lastCall.failed
        /\ ReportKeys = ModuleSet \ lastCall.failed
        /\ Len(ReportResults) = Cardinality(ReportKeys)
        /\ "executive_summary" \in DOMAIN lastCall.outcome.result

\* A report in which temporal failed by a fault inside, a later module failed
\* by itself, and geographic, called after temporal, gave its result.
C1_Witness ==
    /\ IsReport
    /\ "temporal" \in lastCall.fault
    /\ "geographic" \in ReportKeys
    /\ lastCall.failed # lastCall.fault

\* The ordinal scores of the results of the report that have a risk level.
ReportLevels ==
    LET with == SelectSeq(ReportResults, LAMBDA x : "risk_level" \in DOMAIN x.result.summary)
    IN  [i \in DOMAIN with |-> with[i].result.summary.risk_level]

OrdinalSum ==
    SumOver([i \in DOMAIN ReportLevels |->
                CASE ReportLevels[i] = "LOW" -> 25
                  [] ReportLevels[i] = "MEDIUM" -> 50
                  [] ReportLevels[i] = "HIGH" -> 75
                  [] ReportLevels[i] = "CRITICAL" -> 100],
            DOMAIN ReportLevels)

C3_UnknownOnlyWithoutResults ==
    IsReport /\ ReportSummary.analyses_completed >= 1 /\ ReportKeys # {} =>
        ReportSummary.overall_risk_level # "UNKNOWN"

\* C4: the caller's table has the columns and the row values it was made
\* with, whatever was called on it.
C4_TableNeverMutated == table = orig

\* C5: what an analyzer returns after other analyzers ran on the table is
\* what it returns when it is the first to run on the table.
C5_AnalyzersIndependent ==
    IsAnalyzer =>
        \E now \in NowChoices :
            SameResult(lastCall.outcome,
                       CallModule(lastCall.op, FreshEngine, orig, now, {}).outcome)

\* C6: the second of two calls of an analyzer in a row returns the summary
\* and the detailed_results that the first returned.
C6_Idempotent ==
    [][IsAnalyzer /\ lastCall'.op = lastCall.op
          => SameResult(lastCall.outcome, lastCall'.outcome)]_vars

\* temporal_pattern_analysis has returned twice in a row, on a table it
\* has written its columns into, with rapid transactions to list.
C6_Witness ==
    /\ lastCall.op = "temporal"
    /\ lastCall.calls = 2
    /\ ~ lastCall.outcome.raised
    /\ table # orig
    /\ lastCall.outcome.result.summary.velocity_abuse_count > 0

(***************************************************************************)
(* The claims about the engine's fit state.                                *)
(***************************************************************************)
\* C7: behavioral_profiling returns for a table what an engine that has
\* analysed nothing before returns for it, and where it uses the normalizer
\* and the outlier model it leaves them fitted on this table.
C7_NoFitStateCarriedOver ==
    lastCall.op = "behavioral" =>
        /\ lastCall.outcome = behavioral_profiling(FreshEngine, table).outcome
        /\ engine = IF lastCall.outcome.result.summary.total_customers > 5
                    THEN behavioral_profiling(FreshEngine, table).engine
                    ELSE lastCall.before

\* behavioral_profiling has returned, with a suspicious customer, from an
\* engine fitted on another table before.
C7_Witness ==
    /\ lastCall.op = "behavioral"
    /\ lastCall.before.scaler.fitted
    /\ lastCall.before.isolation_forest.fitted
    /\ lastCall.before # engine
    /\ lastCall.outcome.result.summary.suspicious_customers > 0

(***************************************************************************)
(* The claims about network_analysis.                                      *)
(***************************************************************************)
\* The rows the loop has processed, and those of them of the pair (s, t).
ProcessedRows == 1..processed

RowsOfPair(s, t) ==
    {i \in ProcessedRows : table.rows[i].customer_id = s /\ table.rows[i].merchant_name = t}

EdgesOfPair(s, t) ==
    {k \in DOMAIN graph.edges : graph.edges[k].source = s /\ graph.edges[k].target = t}

\* C8: after any number of transactions processed, each pair that occurred
\* has exactly one edge and no other pair has one; the edge counts the
\* transactions of its pair, its weight is the sum of their amounts, it has
\* one timestamp for each, and the counts of all edges add up to the number
\* of transactions processed.
C8_OneEdgePerPair ==
    /\ \A i \in ProcessedRows :
          Cardinality(EdgesOfPair(table.rows[i].customer_id, table.rows[i].merchant_name)) = 1
    /\ \A k \in DOMAIN graph.edges :
          LET e    == graph.edges[k]
              mine == RowsOfPair(e.source, e.target)
          IN  /\ mine # {}
              /\ e.transaction_count = Cardinality(mine)
              /\ e.weight = SumOver([i \in ProcessedRows |-> table.rows[i].amount], mine)
              /\ Len(e.timestamps) = e.transaction_count
    /\ SumOver([k \in DOMAIN graph.edges |-> graph.edges[k].transaction_count],
               DOMAIN graph.edges) = processed

\* The loop has processed a pair twice, with other pairs in between.
C8_Witness ==
    /\ processed >= 4
    /\ Len(graph.edges) >= 3
    /\ \E k \in DOMAIN graph.edges :
          /\ graph.edges[k].transaction_count = 2
          /\ \E i, j \in RowsOfPair(graph.edges[k].source, graph.edges[k].target) : j > i + 1

NetworkReturned ==
    /\ lastCall.op = "network"
    /\ "locals" \in DOMAIN lastCall
    /\ ~ lastCall.outcome.raised

\* The nodes whose degree centrality or betweenness centrality is above
\* 0.10 or whose PageRank score is above 0.05, from the scores of the call.
OverThreshold ==
    {v \in Range(graph.nodes) :
        \/ 10 * lastCall.locals.centrality[v] > Scale
        \/ 10 * lastCall.locals.betweenness[v] > Scale
        \/ 20 * lastCall.locals.rank.x[v] > Scale}

FlaggedIds ==
    {lastCall.locals.suspicious_nodes[i].node_id : i \in DOMAIN lastCall.locals.suspicious_nodes}

\* C9: the nodes network_analysis flags are the nodes with a degree
\* centrality above 0.10, a betweenness centrality above 0.10 or a PageRank
\* score above 0.05, and no others.
C9_FlaggedIffOverThreshold ==
    NetworkReturned =>
        /\ FlaggedIds = OverThreshold
        /\ Len(lastCall.locals.suspicious_nodes) = Cardinality(OverThreshold)

\* A call that flags a node and leaves alone a node whose degree centrality
\* is 0.10 to the point.
C9_Witness ==
    /\ NetworkReturned
    /\ FlaggedIds # {}
    /\ \E v \in Range(graph.nodes) \ FlaggedIds : 10 * lastCall.locals.centrality[v] = Scale

KeptNodes == lastCall.outcome.result.detailed_results.suspicious_nodes

Combined(x) == x.degree_centrality + x.betweenness_centrality + x.pagerank

\* C10: the risk level is HIGH above 10 flagged nodes, MEDIUM above 5, else
\* LOW, by the count of all flagged nodes, which is the count of the summary;
\* detailed_results keeps min(10, count) flagged nodes, those of the largest
\* combined scores, largest first.
C10_RiskByFullCountTopTenKept ==
    NetworkReturned =>
        LET count   == Cardinality(OverThreshold)
            summary == lastCall.outcome.result.summary
            kept    == {KeptNodes[i].node_id : i \in DOMAIN KeptNodes}
        IN  /\ summary.suspicious_entities_count = count
            /\ summary.risk_level =
                  (IF count > 10 THEN "HIGH" ELSE IF count > 5 THEN "MEDIUM" ELSE "LOW")
            /\ Len(KeptNodes) = Min2(10, count)
            /\ Cardinality(kept) = Len(KeptNodes)
            /\ kept \subseteq OverThreshold
            /\ \A i \in DOMAIN KeptNodes :
                  /\ KeptNodes[i].degree_centrality = lastCall.locals.centrality[KeptNodes[i].node_id]
                  /\ KeptNodes[i].betweenness_centrality = lastCall.locals.betweenness[KeptNodes[i].node_id]
                  /\ KeptNodes[i].pagerank = lastCall.locals.rank.x[KeptNodes[i].node_id]
                  /\ \A j \in DOMAIN KeptNodes :
                        i < j => Combined(KeptNodes[i]) >= Combined(KeptNodes[j])
                  /\ \A v \in OverThreshold \ kept :
                        Combined(KeptNodes[i]) >=
                            lastCall.locals.centrality[v] + lastCall.locals.betweenness[v]
                            + lastCall.locals.rank.x[v]

\* A call that flags more than 10 nodes, of different combined scores.
C10_Witness ==
    /\ NetworkReturned
    /\ Cardinality(OverThreshold) > 10
    /\ lastCall.outcome.result.summary.risk_level = "HIGH"
    /\ Len(KeptNodes) = 10
    /\ Combined(KeptNodes[1]) > Combined(KeptNodes[10])

\* The table is a star: 3 customers, one merchant all of them pay, and no
\* other connection.
CustomersOfTable == {table.rows[i].customer_id : i \in DOMAIN table.rows}

MerchantsOfTable == {table.rows[i].merchant_name : i \in DOMAIN table.rows}

StarOfThree ==
    /\ Cardinality(CustomersOfTable) = 3
    /\ Cardinality(MerchantsOfTable) = 1
    /\ CustomersOfTable \cap MerchantsOfTable = {}

NetworkSummary == lastCall.outcome.result.summary

\* C11 as stated: for 3 customers who each transact with 1 shared merchant
\* and no other connection, network_analysis reports total_nodes = 4 and
\* communities_detected = 0.
C11_StarHasNoCommunity ==
    NetworkReturned /\ StarOfThree =>
        /\ NetworkSummary.network_metrics.total_nodes = 4
        /\ NetworkSummary.communities_detected = 0

\* C11: for 3 customers who each transact with 1 shared merchant and no
\* other connection, network_analysis reports total_nodes = 4 and
\* communities_detected = 1, the one community being the 4 nodes.
C11_StarIsOneCommunity ==
    NetworkReturned /\ StarOfThree =>
        /\ NetworkSummary.network_metrics.total_nodes = 4
        /\ NetworkSummary.communities_detected = 1
        /\ lastCall.outcome.result.detailed_results.communities
              = <<CustomersOfTable \cup MerchantsOfTable>>

\* network_analysis has returned for a star of 3 customers, one of whom
\* paid the merchant twice.
C11_Witness ==
    /\ NetworkReturned
    /\ StarOfThree
    /\ Len(table.rows) = 4
    /\ NetworkSummary.network_metrics.total_edges = 3

(***************************************************************************)
(* The claims about geographic_clustering_analysis.                        *)
(***************************************************************************)
GeoReturned == lastCall.op = "geographic" /\ ~ lastCall.outcome.raised

GeoSummary == lastCall.outcome.result.summary

LevelRank(level) ==
    CASE level = "LOW" -> 1 [] level = "MEDIUM" -> 2 [] level = "HIGH" -> 3
      [] level = "CRITICAL" -> 4

\* t2 is t with the location of one or more rows changed from a location
\* that is not high-risk to a high-risk one, all else as it is.
IsRelocation(t, t2) ==
    /\ t2.cols = t.cols
    /\ DOMAIN t2.rows = DOMAIN t.rows
    /\ \A i \in DOMAIN t.rows :
          \/ t2.rows[i] = t.rows[i]
          \/ /\ t2.rows[i] = [t.rows[i] EXCEPT !.location = t2.rows[i].location]
             /\ t.rows[i].location \notin high_risk_locations
             /\ t2.rows[i].location \in high_risk_locations
    /\ t2 # t

\* C18: for a table without a location column geographic_clustering_analysis
\* does not raise; the summary of its result has an error entry and no
\* risk_level, its detailed_results and its visualizations are empty, and
\* its recommendations are one entry that asks for location data.
C18_NoLocationErrorResult ==
    lastCall.op = "geographic" /\ "location" \notin table.cols =>
        /\ ~ lastCall.outcome.raised
        /\ DOMAIN GeoSummary = {"error"}
        /\ DOMAIN lastCall.outcome.result.detailed_results = {}
        /\ lastCall.outcome.result.visualizations = <<>>
        /\ lastCall.outcome.result.recommendations
              = <<"Ensure location data is available for geographic analysis">>

\* geographic_clustering_analysis has returned for a table of two rows
\* without a location column.
C18_Witness ==
    /\ lastCall.op = "geographic"
    /\ "location" \notin table.cols
    /\ Len(table.rows) = 2
    /\ "error" \in DOMAIN GeoSummary

\* The locations of the table, the rows at a location, and the anomalies
\* the thresholds call for: a high-risk share above 10%, a location with
\* more than half of the transactions, a diversity score (locations per
\* transaction) below 0.05 with fewer than 5 locations, a cross-border
\* share above 20%.
LocationsOfTable == {table.rows[i].location : i \in DOMAIN table.rows}

RowsAtLocations(locs) == {i \in DOMAIN table.rows : table.rows[i].location \in locs}

ExpectedGeographicAnomalies ==
    (IF 100 * Cardinality(RowsAtLocations(high_risk_locations)) > 10 * Len(table.rows)
        THEN {<<"high_risk_locations", "HIGH">>} ELSE {})
    \cup (IF \E l \in LocationsOfTable : 2 * Cardinality(RowsAtLocations({l})) > Len(table.rows)
        THEN {<<"location_concentration", "MEDIUM">>} ELSE {})
    \cup (IF 100 * Cardinality(LocationsOfTable) < 5 * Len(table.rows)
              /\ Cardinality(LocationsOfTable) < 5
        THEN {<<"low_diversity", "MEDIUM">>} ELSE {})
    \cup (IF 100 * Cardinality(RowsAtLocations(LocationsOfTable \ domestic_locations))
                > 20 * Len(table.rows)
        THEN {<<"cross_border_activity", "HIGH">>} ELSE {})

\* C17: geographic_clustering_analysis raises high_risk_locations (HIGH)
\* iff the high-risk share is above 10%, location_concentration (MEDIUM) iff
\* the most frequent location holds more than 50% of the transactions,
\* low_diversity (MEDIUM) iff the diversity score is below 0.05 and there
\* are fewer than 5 locations, cross_border_activity (HIGH) iff the
\* cross-border share is above 20%, each once and no other anomaly; the
\* risk level is HIGH iff a HIGH anomaly is raised, MEDIUM iff only MEDIUM
\* ones, LOW iff none.
C17_GeographicAnomalyRules ==
    GeoReturned /\ "location" \in table.cols =>
        LET anomalies == lastCall.outcome.result.detailed_results.geographic_anomalies
        IN  /\ {<<anomalies[k].type, anomalies[k].severity>> : k \in DOMAIN anomalies}
                  = ExpectedGeographicAnomalies
            /\ Len(anomalies) = Cardinality(ExpectedGeographicAnomalies)
            /\ GeoSummary.anomalies_detected = Len(anomalies)
            /\ GeoSummary.risk_level =
                  (IF \E a \in ExpectedGeographicAnomalies : a[2] = "HIGH" THEN "HIGH"
                   ELSE IF ExpectedGeographicAnomalies # {} THEN "MEDIUM"
                   ELSE "LOW")

\* geographic_clustering_analysis has returned MEDIUM, for low diversity
\* alone, for a batch of ManyRows transactions at 4 locations.
C17_Witness ==
    /\ GeoReturned
    /\ Len(table.rows) = ManyRows
    /\ GeoSummary.total_locations = 4
    /\ Len(lastCall.outcome.result.detailed_results.geographic_anomalies) = 1
    /\ lastCall.outcome.result.detailed_results.geographic_anomalies[1].type = "low_diversity"
    /\ GeoSummary.risk_level = "MEDIUM"

\* C12: when a table is made of another by moving transactions from a
\* location that is not high-risk to a high-risk one, its high-risk
\* percentage is not smaller and its geographic risk level is not lower
\* than the other's.
C12_GeographicMonotone ==
    [][GeoReturned /\ GeoReturned' /\ IsRelocation(table, table')
          => /\ GeoSummary'.high_risk_count >= GeoSummary.high_risk_count
             /\ LevelRank(GeoSummary'.risk_level) >= LevelRank(GeoSummary.risk_level)]_vars

(***************************************************************************)
(* The claims about the percentages of the temporal and the geographic     *)
(* module.  The model keeps the counts the percentages are made of: a      *)
(* percentage 100 * count / n lies in [0, 100] when 0 <= count <= n and    *)
(* n > 0, and there is none when the call raises.                          *)
(***************************************************************************)
CallSummary == lastCall.outcome.result.summary

CountsInRange(counts, n) == n > 0 /\ \A c \in counts : 0 <= c /\ c <= n

\* C13: for every table with the required columns, of any number of rows
\* from 0 on, temporal_pattern_analysis yields an unusual-hour and a
\* velocity-abuse percentage in [0, 100] and geographic_clustering_analysis
\* a cross-border and a high-risk percentage in [0, 100].
C13_PercentagesInRange ==
    /\ lastCall.op = "temporal" /\ BaseColumns \subseteq table.cols =>
          /\ ~ lastCall.outcome.raised
          /\ CountsInRange({CallSummary.unusual_hour_count, CallSummary.velocity_abuse_count},
                           CallSummary.total_transactions)
    /\ lastCall.op = "geographic" /\ BaseColumns \subseteq table.cols =>
          /\ ~ lastCall.outcome.raised
          /\ CountsInRange({CallSummary.cross_border_count, CallSummary.high_risk_count},
                           CallSummary.total_transactions)

(***************************************************************************)
(* The claims about predictive_risk_modeling.                              *)
(***************************************************************************)
PredictiveReturned == lastCall.op = "predictive" /\ ~ lastCall.outcome.raised

\* The rows of amount 100000 with every risk factor at 1, a payment method
\* of risk 0.8 and a merchant category of risk 0.9: a round amount, an
\* unusual hour, a high-risk location, and an amount above the 0.9 quantile
\* (as the one largest amount of 2 to 11 rows is).
AllFactorRows ==
    {i \in DOMAIN table.rows :
        /\ table.rows[i].amount = 100000
        /\ HourOf(table.rows[i].timestamp) \in {0, 1, 2, 3, 22, 23}
        /\ table.rows[i].location \in {"Border_Area", "Unknown", "Offshore"}
        /\ table.rows[i].payment_method = "RTGS"
        /\ table.rows[i].merchant_category = "Gold_Jewelry"
        /\ Len(table.rows) \in 2..11
        /\ \A j \in DOMAIN table.rows \ {i} : table.rows[j].amount < 100000}

\* Row i of the table is listed among the high-risk transactions with the
\* score (in tenths) and the level given.
ListedWith(i, score10, level) ==
    \E q \in DOMAIN lastCall.outcome.result.detailed_results.high_risk_transactions :
        LET x == lastCall.outcome.result.detailed_results.high_risk_transactions[q]
        IN  /\ x.row = table.rows[i]
            /\ x.predicted_risk_score = score10
            /\ x.predicted_risk_level = level

\* C14 as stated: a transaction of amount 100000 with the four flags at 1,
\* payment-method risk 0.8 and merchant-category risk 0.9 gets the
\* predicted_risk_score 82.5 and is classified CRITICAL.
C14_AllFactorsScore825 ==
    PredictiveReturned => \A i \in AllFactorRows : ListedWith(i, 825, "CRITICAL")

\* C14: a transaction of amount 100000 with the four flags at 1,
\* payment-method risk 0.8 and merchant-category risk 0.9 gets the
\* predicted_risk_score 95.5, the weighted sum (0.15 + 0.10 + 0.20 + 0.25
\* + 0.8 * 0.15 + 0.9 * 0.15) * 100, and is classified CRITICAL.
C14_AllFactorsScore955 ==
    PredictiveReturned => \A i \in AllFactorRows : ListedWith(i, 955, "CRITICAL")

\* predictive_risk_modeling has returned for a table with such a
\* transaction and another one.
C14_Witness ==
    /\ PredictiveReturned
    /\ AllFactorRows # {}
    /\ lastCall.outcome.result.summary.high_risk_count = 1

(***************************************************************************)
(* The claims about temporal_pattern_analysis.                             *)
(***************************************************************************)
TemporalReturned == lastCall.op = "temporal" /\ ~ lastCall.outcome.raised

TemporalAnomalyTypes ==
    {lastCall.outcome.result.detailed_results.anomalies[k].type :
        k \in DOMAIN lastCall.outcome.result.detailed_results.anomalies}

\* The transactions timestamped between 00:00 and 05:00.
EarlyRows == {i \in DOMAIN table.rows : table.rows[i].timestamp % 86400 <= 5 * 3600}

\* C15 as stated: a batch with 15% of its transactions between 00:00 and
\* 05:00 gets the temporal risk level HIGH and an anomaly of type
\* unusual_hours.
C15_FifteenPercentIsHigh ==
    TemporalReturned /\ 100 * Cardinality(EarlyRows) = 15 * Len(table.rows) =>
        /\ CallSummary.risk_level = "HIGH"
        /\ "unusual_hours" \in TemporalAnomalyTypes

\* C15: a batch with more than 15% of its transactions between 00:00 and
\* 05:00 gets the temporal risk level HIGH and an anomaly of type
\* unusual_hours.
C15_AboveFifteenPercentIsHigh ==
    TemporalReturned /\ 100 * Cardinality(EarlyRows) > 15 * Len(table.rows) =>
        /\ CallSummary.risk_level = "HIGH"
        /\ "unusual_hours" \in TemporalAnomalyTypes

\* temporal_pattern_analysis has returned for a batch with 20% of its
\* transactions between 00:00 and 05:00 and none other at an unusual hour.
C15_Witness ==
    /\ TemporalReturned
    /\ 100 * Cardinality(EarlyRows) = 20 * Len(table.rows)
    /\ CallSummary.unusual_hour_count = Cardinality(EarlyRows)
    /\ CallSummary.risk_level = "HIGH"

\* The transactions at an unusual hour, on a weekend, and in rapid
\* succession: in time order a transaction follows the one before it by
\* more than 0 and at most 300 seconds when it is the first of its
\* timestamp and the latest timestamp before its own is at most 300
\* seconds earlier.
UnusualHourRows ==
    {i \in DOMAIN table.rows :
        (table.rows[i].timestamp \div 3600) % 24 \in {0, 1, 2, 3, 4, 5, 22, 23}}

WeekendRows ==
    {i \in DOMAIN table.rows : (table.rows[i].timestamp \div 86400) % 7 \in {5, 6}}

Timestamps == {table.rows[i].timestamp : i \in DOMAIN table.rows}

RapidTimestamps ==
    {v \in Timestamps : \E u \in Timestamps : u < v /\ v - u <= 300}

ExpectedTemporalAnomalies ==
    (IF 100 * Cardinality(UnusualHourRows) > 15 * Len(table.rows)
        THEN {<<"unusual_hours", "HIGH">>} ELSE {})
    \cup (IF 100 * Cardinality(RapidTimestamps) > 5 * Len(table.rows)
        THEN {<<"velocity_abuse", "MEDIUM">>} ELSE {})
    \cup (IF 100 * Cardinality(WeekendRows) > 40 * Len(table.rows)
        THEN {<<"weekend_activity", "MEDIUM">>} ELSE {})

\* C16: temporal_pattern_analysis raises unusual_hours (HIGH) iff more than
\* 15% of the transactions are at unusual hours, velocity_abuse (MEDIUM) iff
\* more than 5% follow the transaction before them in time order by more
\* than 0 and at most 300 seconds, weekend_activity (MEDIUM) iff more than
\* 40% are on a weekend, each once and no other anomaly; the risk level is
\* HIGH iff a HIGH anomaly is raised, MEDIUM iff only MEDIUM ones, LOW iff
\* none.
C16_TemporalAnomalyRules ==
    TemporalReturned =>
        LET anomalies == lastCall.outcome.result.detailed_results.anomalies
        IN  /\ {<<anomalies[k].type, anomalies[k].severity>> : k \in DOMAIN anomalies}
                  = ExpectedTemporalAnomalies
            /\ Len(anomalies) = Cardinality(ExpectedTemporalAnomalies)
            /\ CallSummary.anomalies_detected = Len(anomalies)
            /\ CallSummary.risk_level =
                  (IF <<"unusual_hours", "HIGH">> \in ExpectedTemporalAnomalies THEN "HIGH"
                   ELSE IF ExpectedTemporalAnomalies # {} THEN "MEDIUM"
                   ELSE "LOW")

\* temporal_pattern_analysis has returned MEDIUM for a batch with 10% of
\* its transactions 300 seconds after the one before, more than 40% on a
\* weekend and 15% at unusual hours.
C16_Witness ==
    /\ TemporalReturned
    /\ TemporalAnomalyTypes = {"velocity_abuse", "weekend_activity"}
    /\ CallSummary.risk_level = "MEDIUM"
    /\ 100 * Cardinality(UnusualHourRows) = 15 * Len(table.rows)
    /\ 100 * Cardinality(RapidTimestamps) = 10 * Len(table.rows)

(***************************************************************************)
(* The claims about behavioral_profiling.                                  *)
(***************************************************************************)
BehavioralReturned == lastCall.op = "behavioral" /\ ~ lastCall.outcome.raised

\* The rows of a customer, the whole days between the first and the last
\* of them, and the customers each rule is about.
RowsOfCustomer(c) == {i \in DOMAIN table.rows : table.rows[i].customer_id = c}

WholeDays(c) ==
    LET times == {table.rows[i].timestamp : i \in RowsOfCustomer(c)}
    IN  CHOOSE d \in 0..7 : \E first, last \in times :
            /\ \A x \in times : first <= x /\ x <= last
            /\ d * 86400 <= last - first
            /\ last - first < (d + 1) * 86400

HighVelocityCustomers ==
    {c \in CustomersOfTable : Cardinality(RowsOfCustomer(c)) > 10 * Max2(WholeDays(c), 1)}

RoundAmountCustomers ==
    {c \in CustomersOfTable :
        2 * Cardinality({i \in RowsOfCustomer(c) : table.rows[i].amount % 1000 = 0})
            > Cardinality(RowsOfCustomer(c))}

LowDiversityCustomers ==
    {c \in CustomersOfTable :
        /\ Cardinality({table.rows[i].location : i \in RowsOfCustomer(c)}) <= 1
        /\ Cardinality({table.rows[i].payment_method : i \in RowsOfCustomer(c)}) <= 1
        /\ Cardinality(RowsOfCustomer(c)) > 5}

ExpectedBehavioralAlerts ==
    (IF HighVelocityCustomers # {} THEN {<<"high_velocity", "HIGH">>} ELSE {})
    \cup (IF RoundAmountCustomers # {} THEN {<<"round_amounts", "MEDIUM">>} ELSE {})
    \cup (IF LowDiversityCustomers # {} THEN {<<"low_diversity", "MEDIUM">>} ELSE {})

\* C19: behavioral_profiling raises high_velocity (HIGH) iff some customer
\* has more than 10 transactions a day, round_amounts (MEDIUM) iff some
\* customer has more than 50% round amounts, low_diversity (MEDIUM) iff
\* some customer has at most one location, at most one payment method and
\* more than 5 transactions, each once and no other alert; the risk level
\* is HIGH iff a HIGH alert is raised, MEDIUM iff only MEDIUM ones, LOW iff
\* none, whether customers are flagged as outliers or not.
C19_BehavioralAlertRules ==
    BehavioralReturned =>
        LET alerts == lastCall.outcome.result.detailed_results.behavioral_alerts
        IN  /\ {<<alerts[k].type, alerts[k].severity>> : k \in DOMAIN alerts}
                  = ExpectedBehavioralAlerts
            /\ Len(alerts) = Cardinality(ExpectedBehavioralAlerts)
            /\ CallSummary.behavioral_alerts = Len(alerts)
            /\ CallSummary.risk_level =
                  (IF <<"high_velocity", "HIGH">> \in ExpectedBehavioralAlerts THEN "HIGH"
                   ELSE IF ExpectedBehavioralAlerts # {} THEN "MEDIUM"
                   ELSE "LOW")

\* behavioral_profiling has returned LOW, with no alert, for a table in
\* which it flags a customer as an outlier; the active customer has 10
\* transactions a day and half of them of a round amount.
C19_Witness ==
    /\ BehavioralReturned
    /\ CallSummary.suspicious_customers > 0
    /\ CallSummary.behavioral_alerts = 0
    /\ CallSummary.risk_level = "LOW"
    /\ \E c \in CustomersOfTable :
          /\ Cardinality(RowsOfCustomer(c)) = 10
          /\ WholeDays(c) <= 1
          /\ Cardinality({i \in RowsOfCustomer(c) : table.rows[i].amount % 1000 = 0}) = 5

\* The customers flagged as outliers, with the features they are listed
\* with.
FlaggedProfiles ==
    {lastCall.outcome.result.detailed_results.suspicious_customers[k].profile :
        k \in DOMAIN lastCall.outcome.result.detailed_results.suspicious_customers}

\* C20: behavioral_profiling does not fail on a division by zero, and the
\* velocity of a customer (in hundredths, rounded down) is the number of
\* the customer's transactions divided by the whole days between the first
\* and the last of them, or by 1 when that is 0; it is 1.0 for a customer
\* with exactly one transaction.
C20_VelocityOverAtLeastOneDay ==
    lastCall.op = "behavioral" =>
        /\ ~ lastCall.outcome.raised
        /\ \A p \in FlaggedProfiles :
              /\ p.transaction_count = Cardinality(RowsOfCustomer(p.customer_id))
              /\ p.velocity = (100 * p.transaction_count)
                                  \div Max2(WholeDays(p.customer_id), 1)
              /\ p.transaction_count = 1 => p.velocity = 100

\* behavioral_profiling has returned with a flagged customer of exactly
\* one transaction.
C20_Witness ==
    /\ BehavioralReturned
    /\ \E p \in FlaggedProfiles : p.transaction_count = 1 /\ p.velocity = 100

(***************************************************************************)
(* The claims about the levels and the trend of predictive_risk_modeling.  *)
(***************************************************************************)
PredictiveResult == lastCall.outcome.result

\* The rows of the table with a predicted_risk_score, in tenths, above lo
\* and up to hi.
RowsScoring(lo, hi) ==
    {i \in DOMAIN table.rows :
        PredictedRiskScore(table, i) > lo /\ PredictedRiskScore(table, i) <= hi}

HighRiskListed == Range(PredictiveResult.detailed_results.high_risk_transactions)

\* C21: predictive_risk_modeling puts every transaction in the level of the
\* right-closed bin of its predicted_risk_score: LOW for (0, 25], MEDIUM for
\* (25, 50], HIGH for (50, 75], CRITICAL for (75, 100]; a score of 25, 50
\* or 75 is of the lower level.
C21_RightClosedBins ==
    PredictiveReturned =>
        /\ PredictiveResult.detailed_results.risk_distribution =
               [l \in {"LOW", "MEDIUM", "HIGH", "CRITICAL"} |->
                   Cardinality(CASE l = "LOW" -> RowsScoring(0, 250)
                                 [] l = "MEDIUM" -> RowsScoring(250, 500)
                                 [] l = "HIGH" -> RowsScoring(500, 750)
                                 [] l = "CRITICAL" -> RowsScoring(750, 1000))]
        /\ \A x \in HighRiskListed :
               /\ x.predicted_risk_level = "HIGH" <=>
                      x.predicted_risk_score > 500 /\ x.predicted_risk_score <= 750
               /\ x.predicted_risk_level = "CRITICAL" <=>
                      x.predicted_risk_score > 750 /\ x.predicted_risk_score <= 1000

\* predictive_risk_modeling has returned for a table whose first
\* transaction scores exactly 75 and is listed as HIGH.
C21_Witness ==
    /\ PredictiveReturned
    /\ PredictedRiskScore(table, 1) = 750
    /\ \E x \in HighRiskListed :
          /\ x.row = table.rows[1]
          /\ x.predicted_risk_score = 750
          /\ x.predicted_risk_level = "HIGH"

\* The days of the table's transactions, and the transactions of a day.
DaysOfTable == {DateOf(table.rows[i].timestamp) : i \in DOMAIN table.rows}

RowsOfDay(d) == {i \in DOMAIN table.rows : DateOf(table.rows[i].timestamp) = d}

\* The least number that every day's number of transactions divides.
CommonCount ==
    CHOOSE k \in 1..(Len(table.rows) * Len(table.rows)) :
        /\ \A d \in DaysOfTable : k % Cardinality(RowsOfDay(d)) = 0
        /\ \A j \in 1..(k - 1) : \E d \in DaysOfTable : j % Cardinality(RowsOfDay(d)) # 0

\* CommonCount times the mean predicted_risk_score (in tenths) of day d.
DailyMean(d) ==
    (CommonCount \div Cardinality(RowsOfDay(d)))
        * SumOver([i \in DOMAIN table.rows |-> PredictedRiskScore(table, i)], RowsOfDay(d))

\* 3 * 10 * CommonCount times the difference d of the claim: the daily
\* means of the latest three days less those of the earliest three.
TrendDifference ==
    SumOver([d \in DaysOfTable |-> DailyMean(d)],
            {d \in DaysOfTable : Cardinality({e \in DaysOfTable : e > d}) < 3})
    - SumOver([d \in DaysOfTable |-> DailyMean(d)],
              {d \in DaysOfTable : Cardinality({e \in DaysOfTable : e < d}) < 3})

\* C22: risk_trend is INSUFFICIENT_DATA unless the table has more than 10
\* transactions on more than 3 distinct days; otherwise, with d the mean of
\* the daily mean scores of the latest 3 days less that of the earliest 3
\* days, it is INCREASING iff d > 5, DECREASING iff d < -5, else STABLE.
C22_TrendRules ==
    PredictiveReturned =>
        IF Len(table.rows) > 10 /\ Cardinality(DaysOfTable) > 3
        THEN /\ PredictiveResult.summary.risk_trend = "INCREASING" <=>
                    TrendDifference > 5 * 3 * 10 * CommonCount
             /\ PredictiveResult.summary.risk_trend = "DECREASING" <=>
                    TrendDifference < 0 - 5 * 3 * 10 * CommonCount
             /\ PredictiveResult.summary.risk_trend \in {"INCREASING", "DECREASING", "STABLE"}
        ELSE PredictiveResult.summary.risk_trend = "INSUFFICIENT_DATA"

\* predictive_risk_modeling has returned STABLE for more than 10
\* transactions on more than 3 days whose difference d is exactly 5.
C22_Witness ==
    /\ PredictiveReturned
    /\ Len(table.rows) > 10 /\ Cardinality(DaysOfTable) > 3
    /\ TrendDifference = 5 * 3 * 10 * CommonCount
    /\ PredictiveResult.summary.risk_trend = "STABLE"

\* C23: the summary risk_level of predictive_risk_modeling is HIGH iff more
\* than 10% of the transactions are classified HIGH or CRITICAL, MEDIUM iff
\* at least one but at most 10% of them are, and LOW iff none is.
C23_SummaryLevelByShare ==
    PredictiveReturned =>
        /\ PredictiveResult.summary.risk_level = "HIGH" <=>
               10 * Cardinality(RowsScoring(500, 1000)) > Len(table.rows)
        /\ PredictiveResult.summary.risk_level = "MEDIUM" <=>
               /\ Cardinality(RowsScoring(500, 1000)) >= 1
               /\ 10 * Cardinality(RowsScoring(500, 1000)) <= Len(table.rows)
        /\ PredictiveResult.summary.risk_level = "LOW" <=> RowsScoring(500, 1000) = {}
        /\ PredictiveResult.summary.high_risk_count = Cardinality(RowsScoring(500, 1000))

\* predictive_risk_modeling has returned MEDIUM for a table of which
\* exactly 10% of the transactions are HIGH or CRITICAL.
C23_Witness ==
    /\ PredictiveReturned
    /\ RowsScoring(500, 1000) # {}
    /\ 10 * Cardinality(RowsScoring(500, 1000)) = Len(table.rows)
    /\ PredictiveResult.summary.risk_level = "MEDIUM"

\* The transactions of the table the result classifies, by its
\* risk_distribution.
ClassifiedCount ==
    SumOver(PredictiveResult.detailed_results.risk_distribution,
            {"LOW", "MEDIUM", "HIGH", "CRITICAL"})

\* C27: every transaction's predicted_risk_score lies between 3 and 97
\* inclusive, so that every transaction is classified into one of LOW,
\* MEDIUM, HIGH and CRITICAL and none is left without a level.
C27_ScoreBetween3And97 ==
    PredictiveReturned =>
        /\ \A method \in {"UPI", "Card", "Net_Banking", "IMPS", "NEFT", "RTGS",
                           "Cash_Deposit", "Cheque"} :
               payment_risk_scores(method) \in 1..9
        /\ \A category \in {"Grocery", "Food", "Transport", "Retail", "Healthcare",
                             "Education", "Entertainment", "Investment", "Real_Estate",
                             "Gold_Jewelry", "Crypto"} :
               merchant_risk_scores(category) \in 1..9
        /\ \A i \in DOMAIN table.rows :
               PredictedRiskScore(table, i) >= 30 /\ PredictedRiskScore(table, i) <= 970
        /\ \A x \in HighRiskListed : x.predicted_risk_score <= 970
        /\ PredictiveResult.summary.risk_score_sum >= 30 * Len(table.rows)
        /\ PredictiveResult.summary.risk_score_sum <= 970 * Len(table.rows)
        /\ ClassifiedCount = Len(table.rows)

\* predictive_risk_modeling has returned for a table with a transaction
\* that scores 97, listed as CRITICAL, and one that scores 3.
C27_Witness ==
    /\ PredictiveReturned
    /\ \E x \in HighRiskListed :
          x.predicted_risk_score = 970 /\ x.predicted_risk_level = "CRITICAL"
    /\ \E i \in DOMAIN table.rows : PredictedRiskScore(table, i) = 30
    /\ PredictiveResult.summary.risk_score_sum = 1000

(***************************************************************************)
(* The claim about the risk factors of the modules.                        *)
(***************************************************************************)
\* The predicted_risk_score (in tenths) of row i with the unusual-hour flag
\* set for the hours temporal_pattern_analysis counts as unusual and the
\* high-risk-location flag set for the locations
\* geographic_clustering_analysis counts as high-risk.
ScoreWithSharedFlags(i) ==
    150 * Flag(HourOf(table.rows[i].timestamp) \in unusual_hours)
    + 100 * Flag(table.rows[i].amount % 1000 = 0)
    + 200 * Flag(IsHighAmount([j \in DOMAIN table.rows |-> table.rows[j].amount], i))
    + 250 * Flag(table.rows[i].location \in high_risk_locations)
    + 15 * payment_risk_scores(table.rows[i].payment_method)
    + 15 * merchant_risk_scores(table.rows[i].merchant_category)

\* C30: the predictive scorer's is_unusual_hour flag is 1 exactly for the
\* hours the temporal detector counts as unusual (00-05, 22-23) and its
\* is_high_risk_location flag is 1 exactly for the locations the geographic
\* analyzer counts as high-risk; so the scores it returns are those of the
\* two modules' flags.
C30_FlagsAgreeAcrossModules ==
    PredictiveReturned =>
        /\ \A i \in DOMAIN table.rows :
               /\ HourOf(table.rows[i].timestamp) \in predictive_unusual_hours <=>
                      HourOf(table.rows[i].timestamp) \in unusual_hours
               /\ table.rows[i].location \in predictive_high_risk_locations <=>
                      table.rows[i].location \in high_risk_locations
        /\ PredictiveResult.summary.risk_score_sum =
               SumOver([i \in DOMAIN table.rows |-> ScoreWithSharedFlags(i)], DOMAIN table.rows)
        /\ \A x \in HighRiskListed :
               \E i \in DOMAIN table.rows :
                   x.row = table.rows[i] /\ x.predicted_risk_score = ScoreWithSharedFlags(i)

(***************************************************************************)
(* The claim about the shares of geographic_clustering_analysis.           *)
(***************************************************************************)
GeographicAnomalyTypes ==
    {lastCall.outcome.result.detailed_results.geographic_anomalies[i].type :
        i \in DOMAIN lastCall.outcome.result.detailed_results.geographic_anomalies}

\* C29: for a table with a location field the transactions at high-risk
\* locations are among the cross-border ones, so high_risk_percentage is at
\* most cross_border_percentage; and the high_risk_locations anomaly at a
\* share above 20% comes with the cross_border_activity anomaly.
C29_HighRiskWithinCrossBorder ==
    GeoReturned /\ "location" \in table.cols =>
        /\ GeoSummary.high_risk_count <= GeoSummary.cross_border_count
        /\ GeoSummary.high_risk_count =
               Cardinality({i \in DOMAIN table.rows :
                               table.rows[i].location \in
                                   {"Border_Area", "Unknown", "Offshore", "Tax_Haven"}})
        /\ 100 * GeoSummary.high_risk_count > 20 * GeoSummary.total_transactions =>
               {"high_risk_locations", "cross_border_activity"} \subseteq GeographicAnomalyTypes

\* geographic_clustering_analysis has returned both anomalies for a table
\* with more than 20% of its transactions at a high-risk location.
C29_Witness ==
    /\ GeoReturned /\ "location" \in table.cols
    /\ 100 * GeoSummary.high_risk_count > 20 * GeoSummary.total_transactions
    /\ {"high_risk_locations", "cross_border_activity"} \subseteq GeographicAnomalyTypes

(***************************************************************************)
(* The claims about the executive summary.                                 *)
(***************************************************************************)
\* The place of a module in the order of the report.
ModuleOrder(m) == CHOOSE i \in DOMAIN Modules : Modules[i] = m

\* The recommendations of the results of the report, one result after the
\* other.
ReportRecommendations ==
    Flatten([i \in DOMAIN ReportResults |-> ReportResults[i].result.recommendations])

\* The places in ReportRecommendations of the recommendations that start
\* with "Immediate" or "Priority", the only ones of the analyzers' texts
\* that have either word in them.
PriorityPlaces ==
    {i \in DOMAIN ReportRecommendations :
        \E text \in {"Immediate investigation required", "Priority investigation",
                      "Immediate review required",
                      "Immediate attention: high/critical risk transactions identified"} :
            ReportRecommendations[i] = text}

\* C24: priority_actions is the list of the recommendations, collected from
\* every module result in module order, that have 'immediate' or 'priority'
\* in them, cut to its first 5 entries; total_recommendations counts every
\* recommendation collected.
C24_PriorityActions ==
    IsReport =>
        /\ \A i, j \in DOMAIN ReportResults :
               i < j => ModuleOrder(ReportResults[i].key) < ModuleOrder(ReportResults[j].key)
        /\ ReportSummary.total_recommendations = Len(ReportRecommendations)
        /\ Len(ReportSummary.priority_actions) = Min2(Cardinality(PriorityPlaces), 5)
        /\ \A k \in DOMAIN ReportSummary.priority_actions :
               \E i \in PriorityPlaces :
                   /\ Cardinality({j \in PriorityPlaces : j < i}) = k - 1
                   /\ ReportSummary.priority_actions[k] = ReportRecommendations[i]

\* A report whose priority actions come from three modules, in their
\* order, among recommendations that are not priority actions.
C24_Witness ==
    /\ IsReport
    /\ ReportSummary.priority_actions =
          <<"Immediate investigation required", "Priority investigation",
            "Priority investigation",
            "Immediate attention: high/critical risk transactions identified">>
    /\ ReportSummary.total_recommendations > 4

\* C26: whenever a module result of the report carries a risk level, every
\* such level is LOW, MEDIUM or HIGH and overall_risk_score lies in
\* [25, 75]; overall_risk_level is never LOW (the report of modules that
\* are all LOW is rated MEDIUM) and is CRITICAL exactly when every module
\* with a level is HIGH.
C26_OverallBetween25And75 ==
    IsReport /\ Len(ReportLevels) > 0 =>
        /\ \A i \in DOMAIN ReportLevels : ReportLevels[i] \in {"LOW", "MEDIUM", "HIGH"}
        /\ ReportSummary.overall_risk_score60 >= 25 * 60
        /\ ReportSummary.overall_risk_score60 <= 75 * 60
        /\ ReportSummary.overall_risk_level \in {"MEDIUM", "HIGH", "CRITICAL"}
        /\ (\A i \in DOMAIN ReportLevels : ReportLevels[i] = "LOW") =>
               ReportSummary.overall_risk_level = "MEDIUM"
        /\ ReportSummary.overall_risk_level = "CRITICAL" <=>
               \A i \in DOMAIN ReportLevels : ReportLevels[i] = "HIGH"

\* A report of several modules, all of them LOW, rated MEDIUM with the
\* score 25.
C26_Witness ==
    /\ IsReport
    /\ Len(ReportLevels) >= 2
    /\ \A i \in DOMAIN ReportLevels : ReportLevels[i] = "LOW"
    /\ ReportSummary.overall_risk_score60 = 25 * 60
    /\ ReportSummary.overall_risk_level = "MEDIUM"

(***************************************************************************)
(* The claims about network_analysis on small graphs.                      *)
(***************************************************************************)
\* C25: for an empty transaction table network_analysis returns, without
\* raising, total_nodes = 0, total_edges = 0, density = 0, no suspicious
\* node, no community, no recommendation and the risk_level LOW.
C25_EmptyTableNetwork ==
    lastCall.op = "network" /\ Len(table.rows) = 0 =>
        /\ ~ lastCall.outcome.raised
        /\ NetworkSummary.network_metrics = [total_nodes |-> 0, total_edges |-> 0, density |-> 0]
        /\ NetworkSummary.suspicious_entities_count = 0
        /\ NetworkSummary.communities_detected = 0
        /\ NetworkSummary.risk_level = "LOW"
        /\ lastCall.outcome.result.detailed_results.suspicious_nodes = <<>>
        /\ lastCall.outcome.result.detailed_results.communities = <<>>
        /\ lastCall.outcome.result.recommendations = <<>>

\* network_analysis has returned for the empty table.
C25_Witness ==
    /\ lastCall.op = "network"
    /\ Len(table.rows) = 0
    /\ processed = 0
    /\ ~ lastCall.outcome.raised

\* The number of edges of the graph at the node v, a loop counted twice.
EdgeEnds(v) ==
    Cardinality({k \in DOMAIN graph.edges : graph.edges[k].source = v})
    + Cardinality({k \in DOMAIN graph.edges : graph.edges[k].target = v})

\* C28: in a graph of 2 to 10 nodes network_analysis flags every node, each
\* node being at an edge and so of a degree centrality of 1/9 at least,
\* above 0.10; hence a graph of 6 to 10 nodes is of risk_level MEDIUM; and
\* from 11 nodes on, a node at one edge is not above 0.10 by its degree.
C28_SmallGraphsAllFlagged ==
    NetworkReturned =>
        /\ \A v \in Range(graph.nodes) : EdgeEnds(v) >= 1
        /\ Len(graph.nodes) \in 2..10 =>
               /\ \A v \in Range(graph.nodes) : 10 * lastCall.locals.centrality[v] > Scale
               /\ FlaggedIds = Range(graph.nodes)
               /\ NetworkSummary.suspicious_entities_count = Len(graph.nodes)
        /\ Len(graph.nodes) \in 6..10 => NetworkSummary.risk_level = "MEDIUM"
        /\ Len(graph.nodes) >= 11 =>
               \A v \in Range(graph.nodes) :
                   EdgeEnds(v) = 1 => 10 * lastCall.locals.centrality[v] <= Scale

\* network_analysis has returned MEDIUM for a graph of 10 nodes, all of
\* them flagged, one of them at one edge only.
C28_Witness ==
    /\ NetworkReturned
    /\ Len(graph.nodes) = 10
    /\ \E v \in FlaggedIds : EdgeEnds(v) = 1
    /\ FlaggedIds = Range(graph.nodes)
    /\ NetworkSummary.risk_level = "MEDIUM"

====
